---- MODULE Spec2Model ----
(***************************************************************************)
(* NFL Monte Carlo simulators (proto-lab32/NFLGPT).                        *)
(*                                                                         *)
(* The engines modelled here:                                              *)
(*   w8     src/src/DDSmontecarlo_w8_robust.js        discrete per-drive   *)
(*   fixed  src/src/MonteCarloSimulator_rewrite_FIXED_v2.js   Gaussian     *)
(*   v3     src/unnamed/part_001                      Gaussian v3          *)
(*   v2     src/unnamed/part_004                      Gaussian v2          *)
(*   orig   src/unnamed/part_003                      discrete, original   *)
(*   v4     src/src/MonteCarloSimulator_calibrated_v4_DEBUG.js             *)
(*                                                                         *)
(* JavaScript numbers are modelled as exact rationals <<n, d>> in lowest   *)
(* terms with d > 0, extended with the three IEEE specials                 *)
(*   <<1, 0>> = +Infinity,  <<-1, 0>> = -Infinity,  <<0, 0>> = NaN.        *)
(* Arithmetic follows the IEEE rules for the specials; rounding error of   *)
(* finite double arithmetic is not modelled.                               *)
(***************************************************************************)
EXTENDS Integers, Sequences, FiniteSets, TLC

(***************************************************************************)
(* Numbers                                                                 *)
(***************************************************************************)
Abs(n) == IF n < 0 THEN -n ELSE n

Sgn(n) == IF n < 0 THEN -1 ELSE IF n > 0 THEN 1 ELSE 0

RECURSIVE GCD(_, _)
GCD(a, b) == IF b = 0 THEN a ELSE GCD(b, a % b)

\* n/d with the common factor g of n and d > 0 taken out
Lowest(n, d, g) == <<n \div g, d \div g>>

\* the number n/d; d = 0 gives the special with the sign of n
Rat(n, d) ==
    IF d = 0 THEN <<Sgn(n), 0>>
    ELSE IF d < 0 THEN Lowest(-n, -d, GCD(Abs(n), -d))
    ELSE Lowest(n, d, GCD(Abs(n), d))

Num(n) == <<n, 1>>

PosInf == <<1, 0>>

NegInf == <<-1, 0>>

NaN == <<0, 0>>

isNaN(x) == x = NaN

isFinite(x) == x[2] # 0

FNeg(x) == <<-x[1], x[2]>>

FAdd(x, y) ==
    IF isNaN(x) \/ isNaN(y) THEN NaN
    ELSE IF ~isFinite(x) THEN (IF ~isFinite(y) /\ y # x THEN NaN ELSE x)
    ELSE IF ~isFinite(y) THEN y
    ELSE LET g == GCD(x[2], y[2])
         IN  Rat(x[1] * (y[2] \div g) + y[1] * (x[2] \div g), x[2] * (y[2] \div g))

FSub(x, y) == FAdd(x, FNeg(y))

FMul(x, y) ==
    IF isNaN(x) \/ isNaN(y) THEN NaN
    ELSE IF ~isFinite(x) \/ ~isFinite(y)
         THEN <<Sgn(x[1]) * Sgn(y[1]), 0>>
    ELSE LET g1 == GCD(Abs(x[1]), y[2])
             g2 == GCD(Abs(y[1]), x[2])
         IN  <<(x[1] \div g1) * (y[1] \div g2), (x[2] \div g2) * (y[2] \div g1)>>

FDiv(x, y) ==
    IF isNaN(x) \/ isNaN(y) THEN NaN
    ELSE IF ~isFinite(y) THEN (IF ~isFinite(x) THEN NaN ELSE Num(0))
    ELSE IF y[1] = 0 THEN <<Sgn(x[1]), 0>>
    ELSE IF ~isFinite(x) THEN <<Sgn(x[1]) * Sgn(y[1]), 0>>
    ELSE FMul(x, Rat(y[2], y[1]))

\* x < y; any comparison with NaN is false
FLt(x, y) ==
    IF isNaN(x) \/ isNaN(y) THEN FALSE
    ELSE IF ~isFinite(x) THEN x = NegInf /\ y # NegInf
    ELSE IF ~isFinite(y) THEN y = PosInf
    ELSE LET g == GCD(x[2], y[2])
         IN  x[1] * (y[2] \div g) < y[1] * (x[2] \div g)

FGt(x, y) == FLt(y, x)

FLe(x, y) == ~isNaN(x) /\ ~isNaN(y) /\ ~FLt(y, x)

\* Math.max / Math.min of two numbers: NaN if either is NaN
MathMax(x, y) == IF isNaN(x) \/ isNaN(y) THEN NaN ELSE IF FLt(x, y) THEN y ELSE x

MathMin(x, y) == IF isNaN(x) \/ isNaN(y) THEN NaN ELSE IF FLt(y, x) THEN y ELSE x

MathAbs(x) == <<Abs(x[1]), x[2]>>

\* Math.floor: the specials are returned unchanged
MathFloor(x) == IF ~isFinite(x) THEN x ELSE Num(x[1] \div x[2])

\* Math.round: floor(x + 1/2), halves go up
MathRound(x) == IF ~isFinite(x) THEN x ELSE Num((2 * x[1] + x[2]) \div (2 * x[2]))

\* the integer square root of n >= 0, by bisection on lo <= r < hi
RECURSIVE ISqrtIn(_, _, _)
ISqrtIn(n, lo, hi) ==
    IF hi - lo <= 1 THEN lo
    ELSE LET mid == (lo + hi) \div 2
         IN  IF mid * mid <= n THEN ISqrtIn(n, mid, hi) ELSE ISqrtIn(n, lo, mid)

\* Math.sqrt, to two decimals: NaN below zero, +Infinity at +Infinity
MathSqrt(x) ==
    IF isNaN(x) \/ x[1] < 0 THEN NaN
    ELSE IF ~isFinite(x) THEN x
    ELSE LET q1 == (x[1] \div x[2]) * 100 + ((x[1] % x[2]) * 100) \div x[2]
             r1 == ((x[1] % x[2]) * 100) % x[2]
             v  == q1 * 100 + (r1 * 100) \div x[2]
         IN  Rat(ISqrtIn(v, 0, 46340), 100)

\* a non-negative integer, as the claims about scores read it
IsNonNegInteger(x) == isFinite(x) /\ x[2] = 1 /\ x[1] >= 0

\* JavaScript's (x || 0): 0 and NaN are falsy
OrZero(x) == IF isNaN(x) \/ x = Num(0) THEN Num(0) ELSE x

(***************************************************************************)
(* League baselines, weights and logit coefficients.  A decimal of the     *)
(* source is written as the pair <<n, d>> of its fraction in lowest terms: *)
(* 2.02 is <<101, 50>>.                                                    *)
(***************************************************************************)
\* params.lg of the discrete engines (w8 and orig hold the same values):
\* PPD 2.02 (sd 0.40), EPA 0.022 (0.127), SR 0.43 (0.05), RZ 0.56 (0.12),
\* ThreeOut 0.24 (0.05), Drives 24
lg_dds ==
    [PPD |-> <<101, 50>>, PPD_sd |-> <<2, 5>>,
     EPA |-> <<11, 500>>, EPA_sd |-> <<127, 1000>>,
     SR |-> <<43, 100>>, SR_sd |-> <<1, 20>>,
     RZ |-> <<14, 25>>, RZ_sd |-> <<3, 25>>,
     ThreeOut |-> <<6, 25>>, ThreeOut_sd |-> <<1, 20>>,
     Drives |-> Num(24)]

\* params.lg of the Gaussian engines (fixed, v3 and v2 hold the same values):
\* PPD 2.06 (sd 0.42), EPA 0.022 (0.127), SR 0.43 (0.05), Xpl 0.113 (0.033),
\* RZ 0.56 (0.12), ThreeOut 0.24 (0.05), Pen 0.44 (0.12), Drives 24, Plays 62
lg_gauss ==
    [PPD |-> <<103, 50>>, PPD_sd |-> <<21, 50>>,
     EPA |-> <<11, 500>>, EPA_sd |-> <<127, 1000>>,
     SR |-> <<43, 100>>, SR_sd |-> <<1, 20>>,
     Xpl |-> <<113, 1000>>, Xpl_sd |-> <<33, 1000>>,
     RZ |-> <<14, 25>>, RZ_sd |-> <<3, 25>>,
     ThreeOut |-> <<6, 25>>, ThreeOut_sd |-> <<1, 20>>,
     Pen |-> <<11, 25>>, Pen_sd |-> <<3, 25>>,
     Drives |-> Num(24), Plays |-> Num(62)]

\* params.weights of the Gaussian engines: PPD .20, EPA .40, SR .20, Xpl .10,
\* RZ .10, ThreeOut_eff .25, Pen .05, Pen_def .05, DVOA_off .15, DVOA_def .15,
\* TO_EPA .10, FP .10, Pace_EDPass .10, NoHuddle .20
weights_gauss ==
    [PPD |-> <<1, 5>>, EPA |-> <<2, 5>>, SR |-> <<1, 5>>,
     Xpl |-> <<1, 10>>, RZ |-> <<1, 10>>, ThreeOut_eff |-> <<1, 4>>,
     Pen |-> <<1, 20>>, Pen_def |-> <<1, 20>>,
     DVOA_off |-> <<3, 20>>, DVOA_def |-> <<3, 20>>,
     TO_EPA |-> <<1, 10>>, FP |-> <<1, 10>>,
     Pace_EDPass |-> <<1, 10>>, NoHuddle |-> <<1, 5>>]

\* params.weights of the discrete engines (used for pace only): EPA .40,
\* SR .25, PPD_resid .20, RZ .10, ThreeOut_eff .05, DVOA_off .12, DVOA_def .12,
\* Pace_EDPass .10, NoHuddle .20
weights_dds ==
    [EPA |-> <<2, 5>>, SR |-> <<1, 4>>, PPD_resid |-> <<1, 5>>,
     RZ |-> <<1, 10>>, ThreeOut_eff |-> <<1, 20>>,
     DVOA_off |-> <<3, 25>>, DVOA_def |-> <<3, 25>>,
     Pace_EDPass |-> <<1, 10>>, NoHuddle |-> <<1, 5>>]

\* params.logits of the discrete engines: a0 -1.31, a1 1.10, a2 0.85, a3 0.60,
\* a4 0.25; b0 -0.76, b1 0.95, b2 0.55, b3 0.35, b4 0.40; phi 0.32
logits ==
    [a0 |-> <<-131, 100>>, a1 |-> <<11, 10>>, a2 |-> <<17, 20>>,
     a3 |-> <<3, 5>>, a4 |-> <<1, 4>>,
     b0 |-> <<-19, 25>>, b1 |-> <<19, 20>>, b2 |-> <<11, 20>>,
     b3 |-> <<7, 20>>, b4 |-> <<2, 5>>,
     phi |-> <<8, 25>>]

\* residualization coefficients of PPD on EPA and SR: 0.56 and 0.21
PPD_RESID_C1 == <<14, 25>>

PPD_RESID_C2 == <<21, 100>>

BaseTeamSD == Num(9)

(***************************************************************************)
(* Helpers                                                                 *)
(***************************************************************************)
\* JavaScript's null and undefined where a number is expected
Null == <<"null">>

Undefined == <<"undefined">>

\* z of the engines w8, orig and v3
z(v, m, s) ==
    IF ~isFinite(s) \/ s = Num(0) \/ v = Undefined \/ v = Null THEN Num(0)
    ELSE FDiv(FSub(v, m), s)

\* zScore of the engines fixed and v2
zScore(value, mean_, sd) ==
    IF value = Null \/ value = Undefined THEN Num(0)
    ELSE IF ~isFinite(sd) \/ sd = Num(0) THEN Num(0)
    ELSE FDiv(FSub(value, mean_), sd)

\* zScore of v4: only a standard deviation that is exactly 0 is caught
zScore_v4(value, mean_, sd) ==
    IF sd = Num(0) THEN Num(0) ELSE FDiv(FSub(value, mean_), sd)

clamp01(p) == MathMax(Num(0), MathMin(Num(1), p))

\* 1000 / (1 + exp(-x)) at x = -7, -6.5, ..., 7, rounded to an integer
SigmoidKnots ==
    <<1, 2, 2, 4, 7, 11, 18, 29, 47, 76, 119, 182, 269, 378, 500, 622, 731, 818, 881,
      924, 953, 971, 982, 989, 993, 996, 998, 998, 999>>

\* 1 / (1 + Math.exp(-x)).  In doubles the result is exactly 1 once exp(-x) is
\* below 2^-53 (x >= 37) and exactly 0 once exp(-x) overflows (x <= -710);
\* in between it is strictly inside (0, 1), here read off the table at the
\* nearest half-integer.
sigmoid(x) ==
    IF isNaN(x) THEN NaN
    ELSE IF FLe(Num(37), x) THEN Num(1)
    ELSE IF FLe(x, Num(-710)) THEN Num(0)
    ELSE LET k == MathRound(FMul(Num(2), x))[1]
         IN  IF k >= 14 THEN Rat(999, 1000)
             ELSE IF k <= -14 THEN Rat(1, 1000)
             ELSE Rat(SigmoidKnots[k + 15], 1000)

(***************************************************************************)
(* Net-feature builders                                                    *)
(***************************************************************************)
\* buildNets of the discrete engines
buildNets(off, def) ==
    LET L == lg_dds
        z_epa_o == z(off.off_epa, L.EPA, L.EPA_sd)
        z_sr_o  == z(off.off_sr, L.SR, L.SR_sd)
        z_rz_o  == z(off.off_rz, L.RZ, L.RZ_sd)
        z_3o_o  == z(off.off_3out, L.ThreeOut, L.ThreeOut_sd)
        z_ppd_o == z(off.off_ppd, L.PPD, L.PPD_sd)
        z_epa_d == z(def.def_epa_allowed, L.EPA, L.EPA_sd)
        z_sr_d  == z(def.def_sr, L.SR, L.SR_sd)
        z_rz_d  == z(def.def_rz, L.RZ, L.RZ_sd)
        z_3o_d  == z(def.def_3out, L.ThreeOut, L.ThreeOut_sd)
        z_ppd_d == z(def.def_ppd_allowed, L.PPD, L.PPD_sd)
        EPA_net == FSub(z_epa_o, z_epa_d)
        SR_net  == FSub(z_sr_o, z_sr_d)
        RZ_net  == FSub(z_rz_o, z_rz_d)
        PPD_net == FSub(z_ppd_o, z_ppd_d)
    IN  [EPA_net |-> EPA_net, SR_net |-> SR_net, RZ_net |-> RZ_net,
         ThreeOut_eff |-> FSub(z_3o_d, z_3o_o),
         PPD_resid |-> FSub(PPD_net, FAdd(FMul(PPD_RESID_C1, EPA_net),
                                          FMul(PPD_RESID_C2, SR_net)))]

\* computeNetFeatures of the Gaussian engines
computeNetFeatures(team, oppDefense) ==
    LET L == lg_gauss
        z_ppd_o == z(team.off_ppd, L.PPD, L.PPD_sd)
        z_epa_o == z(team.off_epa, L.EPA, L.EPA_sd)
        z_sr_o  == z(team.off_sr, L.SR, L.SR_sd)
        z_xpl_o == z(team.off_xpl, L.Xpl, L.Xpl_sd)
        z_rz_o  == z(team.off_rz, L.RZ, L.RZ_sd)
        z_out_o == z(team.off_3out, L.ThreeOut, L.ThreeOut_sd)
        z_pen_o == z(team.off_penalties, L.Pen, L.Pen_sd)
        z_ppd_d == z(oppDefense.def_ppd_allowed, L.PPD, L.PPD_sd)
        z_epa_d == z(oppDefense.def_epa_allowed, L.EPA, L.EPA_sd)
        z_sr_d  == z(oppDefense.def_sr, L.SR, L.SR_sd)
        z_xpl_d == z(oppDefense.def_xpl, L.Xpl, L.Xpl_sd)
        z_rz_d  == z(oppDefense.def_rz, L.RZ, L.RZ_sd)
        z_out_d == z(oppDefense.def_3out, L.ThreeOut, L.ThreeOut_sd)
        z_pen_d == z(oppDefense.def_penalties, L.Pen, L.Pen_sd)
        epa_net == FSub(z_epa_o, z_epa_d)
        sr_net  == FSub(z_sr_o, z_sr_d)
        ppd_net == FSub(z_ppd_o, z_ppd_d)
    IN  [epa_net |-> epa_net, sr_net |-> sr_net,
         ppd_resid |-> FSub(ppd_net, FAdd(FMul(PPD_RESID_C1, epa_net),
                                          FMul(PPD_RESID_C2, sr_net))),
         xpl_net |-> FSub(z_xpl_o, z_xpl_d),
         rz_net |-> FSub(z_rz_o, z_rz_d),
         out_net |-> FSub(z_out_d, z_out_o),
         z_pen_o |-> z_pen_o, z_pen_d |-> z_pen_d]

(***************************************************************************)
(* Pace / drive allocation                                                 *)
(***************************************************************************)
\* the no-huddle and early-down-pass multiplier applied to the base drives
paceFactor(h, a, w) ==
    LET nh_boost == FMul(FMul(FDiv(FAdd(OrZero(h.no_huddle), OrZero(a.no_huddle)), Num(2)),
                              w.NoHuddle), Rat(1, 2))
        ed_adj   == FMul(FDiv(FAdd(FSub(OrZero(h.ed_pass), Rat(1, 2)),
                                   FSub(OrZero(a.ed_pass), Rat(1, 2))), Num(2)),
                         w.Pace_EDPass)
    IN  FAdd(FAdd(Num(1), nh_boost), ed_adj)

\* faulty variant of possessionShare: the clamp to [0.35, 0.65] is missing
possessionShare_unclamped(sr_net, epa_net) ==
    FAdd(Rat(1, 2), FMul(Rat(15, 100), FAdd(sr_net, FMul(Rat(1, 2), epa_net))))

\* faulty variant of possessionShare: the share starts from 0.55
possessionShare_homeBias(sr_net, epa_net) ==
    LET raw == FAdd(Rat(55, 100), FMul(Rat(15, 100), FAdd(sr_net, FMul(Rat(1, 2), epa_net))))
    IN  MathMax(Rat(35, 100), MathMin(Rat(65, 100), raw))

\* possession share of the home side from the home-perspective nets
possessionShare(sr_net, epa_net) ==
    LET raw == FAdd(Rat(1, 2), FMul(Rat(15, 100), FAdd(sr_net, FMul(Rat(1, 2), epa_net))))
    IN  MathMax(Rat(35, 100), MathMin(Rat(65, 100), raw))

\* faulty variant of baseDrives_w8: the average of the four numbers
baseDrives_w8_avg4(home, away) ==
    FDiv(FAdd(FDiv(FAdd(home.off_drives, away.def_drives), Num(2)),
              FDiv(FAdd(away.off_drives, home.def_drives), Num(2))), Num(2))

\* the combined drives of w8's computePace before the pace factor and the clamp
baseDrives_w8(home, away) ==
    LET offDefAvgHome == FDiv(FAdd(home.off_drives, away.def_drives), Num(2))
        offDefAvgAway == FDiv(FAdd(away.off_drives, home.def_drives), Num(2))
    IN  FAdd(offDefAvgHome, offDefAvgAway)

computePace_w8(home, away, netsHome) ==
    LET base == baseDrives_w8(home, away)
        adj  == FMul(base, paceFactor(home, away, weights_dds))
    IN  [baseDrives |-> base,
         gameDrives |-> MathMax(Num(20), MathMin(Num(30), adj)),
         posShare |-> possessionShare(netsHome.SR_net, netsHome.EPA_net)]

\* the combined drives of v3's computeGamePace before the pace factor and the clamp
baseDrives_v3(homeTeam, awayTeam, awayDef, homeDef) ==
    LET offDefAvgHome == FDiv(FAdd(homeTeam.off_drives, awayDef.def_drives), Num(2))
        offDefAvgAway == FDiv(FAdd(awayTeam.off_drives, homeDef.def_drives), Num(2))
    IN  FAdd(offDefAvgHome, offDefAvgAway)

computeGamePace_v3(homeTeam, awayTeam, awayDef, homeDef, netsHome) ==
    LET base == baseDrives_v3(homeTeam, awayTeam, awayDef, homeDef)
        adj  == FMul(base, paceFactor(homeTeam, awayTeam, weights_gauss))
    IN  [baseDrives |-> base,
         gameDrives |-> MathMin(Num(30), MathMax(Num(20), adj)),
         posShare |-> possessionShare(netsHome.sr_net, netsHome.epa_net)]

\* the combined drives of v2's computeGamePace before the pace factor and the clamp
baseDrives_v2(homeTeam, awayTeam, awayDef, homeDef) ==
    LET offDefAvgHome == FDiv(FAdd(homeTeam.off_drives, awayDef.def_drives), Num(2))
        offDefAvgAway == FDiv(FAdd(awayTeam.off_drives, homeDef.def_drives), Num(2))
    IN  FAdd(offDefAvgHome, offDefAvgAway)

computeGamePace_v2(homeTeam, awayTeam, awayDef, homeDef, netsHome) ==
    LET base == baseDrives_v2(homeTeam, awayTeam, awayDef, homeDef)
        adj  == FMul(base, paceFactor(homeTeam, awayTeam, weights_gauss))
    IN  [baseDrives |-> base,
         gameDrives |-> MathMin(Num(30), MathMax(Num(20), adj)),
         posShare |-> possessionShare(netsHome.sr_net, netsHome.epa_net)]

\* fixed: the two averages are averaged again, and the clamp is [18, 28]
baseDrives_fixed(homeTeam, awayTeam, awayDef, homeDef) ==
    FDiv(FAdd(FDiv(FAdd(homeTeam.off_drives, awayDef.def_drives), Num(2)),
              FDiv(FAdd(awayTeam.off_drives, homeDef.def_drives), Num(2))), Num(2))

computeGamePace_fixed(homeTeam, awayTeam, awayDef, homeDef, netsHome) ==
    LET base == baseDrives_fixed(homeTeam, awayTeam, awayDef, homeDef)
        adj  == FMul(base, paceFactor(homeTeam, awayTeam, weights_gauss))
    IN  [baseDrives |-> base,
         gameDrives |-> MathMin(Num(28), MathMax(Num(18), adj)),
         posShare |-> possessionShare(netsHome.sr_net, netsHome.epa_net)]

\* orig: as fixed
baseDrives_orig(home, away) ==
    FDiv(FAdd(FDiv(FAdd(home.off_drives, away.def_drives), Num(2)),
              FDiv(FAdd(away.off_drives, home.def_drives), Num(2))), Num(2))

computePace_orig(home, away, netsHome) ==
    LET base == baseDrives_orig(home, away)
        adj  == FMul(base, paceFactor(home, away, weights_dds))
    IN  [baseDrives |-> base,
         gameDrives |-> MathMax(Num(18), MathMin(Num(28), adj)),
         posShare |-> possessionShare(netsHome.SR_net, netsHome.EPA_net)]

(***************************************************************************)
(* Discrete scoring model                                                  *)
(***************************************************************************)
\* faulty variant of driveProbs_w8: the field-goal share is taken of every
\* sustained drive, not only of those that did not end in a touchdown
driveProbs_w8_fgOfAll(off, def, nets) ==
    LET g == logits
        p3O == clamp01(sigmoid(
                 FAdd(FAdd(FSub(FSub(g.a0, FMul(g.a1, nets.EPA_net)),
                                FMul(g.a2, nets.SR_net)),
                           FMul(g.a3, FSub(def.def_3out, lg_dds.ThreeOut))),
                      FMul(g.a4, FNeg(nets.RZ_net)))))
        pTD_S == clamp01(sigmoid(
                 FAdd(FAdd(FAdd(FAdd(g.b0, FMul(g.b1, nets.EPA_net)),
                                FMul(g.b2, nets.SR_net)),
                           FMul(g.b3, nets.RZ_net)),
                      FMul(g.b4, nets.PPD_resid))))
        Outcomes(p3O_, pTD_S_, pS, pTD, pFG) ==
            [p3O |-> p3O_, pTD |-> pTD, pFG |-> pFG,
             pEmpty |-> MathMax(Num(0), FSub(Num(1), FAdd(FAdd(p3O_, pTD), pFG))),
             pS |-> pS, pTD_S |-> pTD_S_]
        Sustained(p3O_, pTD_S_, pS) ==
            Outcomes(p3O_, pTD_S_, pS, FMul(pS, pTD_S_),
                     FMul(pS, MathMax(Num(0), MathMin(Num(1), g.phi))))
    IN  Sustained(p3O, pTD_S, FSub(Num(1), p3O))

\* driveProbs of w8 (def.def_3out is always defined after parseRow)
driveProbs_w8(off, def, nets) ==
    LET g == logits
        opp3o_raw == def.def_3out
        rz_bad == FNeg(nets.RZ_net)
        p3O == clamp01(sigmoid(
                 FAdd(FAdd(FSub(FSub(g.a0, FMul(g.a1, nets.EPA_net)),
                                FMul(g.a2, nets.SR_net)),
                           FMul(g.a3, FSub(opp3o_raw, lg_dds.ThreeOut))),
                      FMul(g.a4, rz_bad))))
        pTD_S == clamp01(sigmoid(
                 FAdd(FAdd(FAdd(FAdd(g.b0, FMul(g.b1, nets.EPA_net)),
                                FMul(g.b2, nets.SR_net)),
                           FMul(g.b3, nets.RZ_net)),
                      FMul(g.b4, nets.PPD_resid))))
        \* the record returned, from the values of p3O, pTD_S, pS, pTD and pFG
        Outcomes(p3O_, pTD_S_, pS, pTD, pFG) ==
            [p3O |-> p3O_, pTD |-> pTD, pFG |-> pFG,
             pEmpty |-> MathMax(Num(0), FSub(Num(1), FAdd(FAdd(p3O_, pTD), pFG))),
             pS |-> pS, pTD_S |-> pTD_S_]
        \* pTD = pS * pTD_S and pFG = pS * (1 - pTD_S) * pFG_ifNoTD
        Sustained(p3O_, pTD_S_, pS) ==
            Outcomes(p3O_, pTD_S_, pS, FMul(pS, pTD_S_),
                     FMul(FMul(pS, FSub(Num(1), pTD_S_)),
                          MathMax(Num(0), MathMin(Num(1), g.phi))))
    IN  Sustained(p3O, pTD_S, FSub(Num(1), p3O))

\* driveProbs of orig
driveProbs_orig(off, def, nets) ==
    LET g == logits
        opp3o_raw == def.def_3out
        rz_bad == FNeg(nets.RZ_net)
        p3O == clamp01(sigmoid(
                 FAdd(FAdd(FSub(FSub(g.a0, FMul(g.a1, nets.EPA_net)),
                                FMul(g.a2, nets.SR_net)),
                           FMul(g.a3, FSub(opp3o_raw, lg_dds.ThreeOut))),
                      FMul(g.a4, rz_bad))))
        pTD_givenSustain == clamp01(sigmoid(
                 FAdd(FAdd(FAdd(FAdd(g.b0, FMul(g.b1, nets.EPA_net)),
                                FMul(g.b2, nets.SR_net)),
                           FMul(g.b3, nets.RZ_net)),
                      FMul(g.b4, nets.PPD_resid))))
        Outcomes(p3O_, pTD, pFG) ==
            [p3O |-> p3O_, pTD |-> pTD, pFG |-> pFG,
             pEmpty |-> MathMax(Num(0), FSub(Num(1), FAdd(FAdd(p3O_, pTD), pFG)))]
        Sustained(p3O_, pTD_gS, pSustain) ==
            Outcomes(p3O_, FMul(pSustain, pTD_gS),
                     FMul(FMul(pSustain, FSub(Num(1), pTD_gS)),
                          MathMax(Num(0), MathMin(Num(1), g.phi))))
    IN  Sustained(p3O, pTD_givenSustain, FSub(Num(1), p3O))

\* faulty variant of tiltHome: the tilted probabilities are never scaled down
tiltHome_noRescale(base, hfa) ==
    [p3O |-> clamp01(FMul(base.p3O, FSub(Num(1), FMul(<<1, 100>>, MathMax(Num(0), hfa))))),
     pTD |-> clamp01(FMul(base.pTD, FAdd(Num(1), FMul(<<1, 50>>, MathMax(Num(0), hfa))))),
     pFG |-> base.pFG]

\* the home-field tilt of simulateOne and the renormalisation of the three
\* probabilities
tiltHome(base, hfa) ==
    LET hfaTDk == FMul(Rat(2, 100), MathMax(Num(0), hfa))
        hfa3Ok == FMul(Rat(1, 100), MathMax(Num(0), hfa))
        Scaled(p3O, pTD, pFG, scaleH) ==
            [p3O |-> FMul(p3O, scaleH), pTD |-> FMul(pTD, scaleH), pFG |-> FMul(pFG, scaleH)]
        Summed(p3O, pTD, pFG, sumH) ==
            Scaled(p3O, pTD, pFG, IF FGt(sumH, Num(1)) THEN FDiv(Num(1), sumH) ELSE Num(1))
        Tilted(p3O, pTD, pFG) == Summed(p3O, pTD, pFG, FAdd(FAdd(p3O, pTD), pFG))
    IN  Tilted(clamp01(FMul(base.p3O, FSub(Num(1), hfa3Ok))),
               clamp01(FMul(base.pTD, FAdd(Num(1), hfaTDk))),
               base.pFG)

\* the away side of simulateOne: a copy of the base record, its three
\* probabilities rescaled when they sum to more than 1
renormAway(base) ==
    LET Scaled(scaleA) ==
            [base EXCEPT !.p3O = FMul(@, scaleA), !.pTD = FMul(@, scaleA),
                         !.pFG = FMul(@, scaleA)]
        Summed(sumA) == Scaled(IF FGt(sumA, Num(1)) THEN FDiv(Num(1), sumA) ELSE Num(1))
    IN  Summed(FAdd(FAdd(base.p3O, base.pTD), base.pFG))

\* simulateOne of w8 up to its sampling loops: the drive counts and the
\* per-drive probabilities of both sides (the debug record it returns)
simulateOne_w8(home, away, netsHome, netsAway, gameDrives, posShare, hfa) ==
    LET Setup(homeDrives, baseHome, baseAway) ==
            [home |-> [drives |-> homeDrives, prob |-> tiltHome(baseHome, hfa)],
             away |-> [drives |-> MathRound(FSub(gameDrives, homeDrives)),
                       prob |-> renormAway(baseAway)],
             base |-> [home |-> baseHome, away |-> baseAway]]
    IN  Setup(MathRound(FMul(gameDrives, posShare)),
              driveProbs_w8(home, away, netsHome),
              driveProbs_w8(away, home, netsAway))

\* simulateOne of orig up to its sampling loops
simulateOne_orig(home, away, netsHome, netsAway, gameDrives, posShare, hfa) ==
    LET Setup(homeDrives, baseHome, baseAway) ==
            [home |-> [drives |-> homeDrives, prob |-> tiltHome(baseHome, hfa)],
             away |-> [drives |-> MathRound(FSub(gameDrives, homeDrives)),
                       prob |-> renormAway(baseAway)],
             base |-> [home |-> baseHome, away |-> baseAway]]
    IN  Setup(MathRound(FMul(gameDrives, posShare)),
              driveProbs_orig(home, away, netsHome),
              driveProbs_orig(away, home, netsAway))

(***************************************************************************)
(* Gaussian scoring model                                                  *)
(***************************************************************************)
\* the mean part of estimateScore (the same text in fixed, v3 and v2):
\* drives, points per drive and expected points
estimateScoreMean(team, oppDefense, isHome, hfa, gameDrives, posShare, nets) ==
    LET L == lg_gauss
        W == weights_gauss
        eff_net == FAdd(FAdd(FAdd(FAdd(FAdd(FMul(nets.ppd_resid, W.PPD),
                                            FMul(nets.epa_net, W.EPA)),
                                       FMul(nets.sr_net, W.SR)),
                                  FMul(nets.xpl_net, W.Xpl)),
                             FMul(nets.rz_net, W.RZ)),
                        FMul(nets.out_net, W.ThreeOut_eff))
        dvoa_adj == FSub(FMul(FDiv(team.off_dvoa, Num(100)), W.DVOA_off),
                         FMul(FDiv(oppDefense.def_dvoa, Num(100)), W.DVOA_def))
        to_adj == FDiv(FMul(team.off_to_epa, W.TO_EPA), L.Drives)
        fp_adj == FMul(FDiv(FSub(team.off_fp, Num(25)), Num(10)), W.FP)
        pen_adj == FAdd(FMul(FNeg(nets.z_pen_o), W.Pen), FMul(nets.z_pen_d, W.Pen_def))
        net_adv == FAdd(FAdd(FAdd(FAdd(eff_net, dvoa_adj), to_adj), fp_adj), pen_adj)
        \* pts = ppd * drives, returned with a floor of 0
        Points(drives, ppd) ==
            [points |-> MathMax(Num(0), FMul(ppd, drives)), drives |-> drives, ppd |-> ppd]
        \* the home side adds hfa / Math.max(1, drives); then the clamp to [0.4, 4.0]
        PerDrive(drives, ppd0) ==
            Points(drives,
                   MathMax(<<2, 5>>, MathMin(Num(4),
                       IF isHome /\ OrZero(hfa) # Num(0)
                       THEN FAdd(ppd0, FDiv(hfa, MathMax(Num(1), drives)))
                       ELSE ppd0)))
    IN  PerDrive(IF isHome THEN FMul(gameDrives, posShare)
                 ELSE FMul(gameDrives, FSub(Num(1), posShare)),
                 FAdd(L.PPD, FMul(net_adv, L.PPD_sd)))

\* estimateScore of fixed: the mean, and the per-team SD clamped to [6, 13]
estimateScore_fixed(team, oppDefense, isHome, hfa, gameDrives, posShare, nets) ==
    LET var_inflater == FAdd(Num(1), FMul(<<3, 10>>, MathAbs(nets.out_net)))
        var_deflater == FSub(Num(1), FMul(<<3, 20>>, MathAbs(nets.sr_net)))
        sd == FMul(FMul(BaseTeamSD, var_inflater), MathMax(<<7, 10>>, var_deflater))
        Returned(m) ==
            [points |-> m.points, std_dev |-> MathMax(Num(6), MathMin(Num(13), sd)),
             drives |-> m.drives, ppd |-> m.ppd]
    IN  Returned(estimateScoreMean(team, oppDefense, isHome, hfa, gameDrives, posShare, nets))

\* EV_SD_Total^2 / 2 of v3 and v2 (EV_SD_Total = 12.7)
baseVar == FDiv(FMul(<<127, 10>>, <<127, 10>>), Num(2))

\* estimateScore of v3: the mean, and the SD from the total-score variance
estimateScore_v3(team, oppDefense, isHome, hfa, gameDrives, posShare, nets) ==
    LET threeOut_net == FSub(oppDefense.def_3out, team.off_3out)
        sr_net2 == FSub(team.off_sr, oppDefense.def_sr)
        volUp == FAdd(Num(1), FMul(<<4, 5>>, MathMax(Num(0), threeOut_net)))
        volDown == FSub(Num(1), FMul(<<3, 5>>, MathMax(Num(0), sr_net2)))
        Returned(m) ==
            [points |-> m.points,
             std_dev |-> MathSqrt(FMul(FMul(baseVar, volUp), MathMax(<<3, 5>>, volDown))),
             drives |-> m.drives, ppd |-> m.ppd]
    IN  Returned(estimateScoreMean(team, oppDefense, isHome, hfa, gameDrives, posShare, nets))

\* estimateScore of v2
estimateScore_v2(team, oppDefense, isHome, hfa, gameDrives, posShare, nets) ==
    LET threeOut_net == FSub(oppDefense.def_3out, team.off_3out)
        sr_net2 == FSub(team.off_sr, oppDefense.def_sr)
        volUp == FAdd(Num(1), FMul(<<4, 5>>, MathMax(Num(0), threeOut_net)))
        volDown == FSub(Num(1), FMul(<<3, 5>>, MathMax(Num(0), sr_net2)))
        Returned(m) ==
            [points |-> m.points,
             std_dev |-> MathSqrt(FMul(FMul(baseVar, volUp), MathMax(<<3, 5>>, volDown))),
             drives |-> m.drives, ppd |-> m.ppd]
    IN  Returned(estimateScoreMean(team, oppDefense, isHome, hfa, gameDrives, posShare, nets))

(***************************************************************************)
(* Team records: the normalized rows an upload leaves in teamDB            *)
(***************************************************************************)
\* every metric at the league default
TeamAvg ==
    [Team |-> "Avg",
     off_ppd |-> <<103, 50>>, off_epa |-> <<11, 500>>, off_sr |-> <<43, 100>>,
     off_xpl |-> <<113, 1000>>, off_rz |-> <<14, 25>>, off_3out |-> <<6, 25>>,
     off_penalties |-> <<11, 25>>, off_to_epa |-> Num(0), off_fp |-> Num(25),
     def_ppd_allowed |-> <<103, 50>>, def_epa_allowed |-> <<11, 500>>,
     def_sr |-> <<43, 100>>, def_xpl |-> <<113, 1000>>, def_rz |-> <<14, 25>>,
     def_3out |-> <<6, 25>>, def_penalties |-> <<11, 25>>,
     off_dvoa |-> Num(0), def_dvoa |-> Num(0),
     off_drives |-> Num(12), def_drives |-> Num(12),
     ed_pass |-> <<1, 2>>, no_huddle |-> Num(0)]

\* an offense one league SD better than average in every metric
TeamStrong ==
    [TeamAvg EXCEPT !.Team = "Strong",
       !.off_ppd = <<62, 25>>, !.off_epa = <<149, 1000>>, !.off_sr = <<12, 25>>,
       !.off_xpl = <<73, 500>>, !.off_rz = <<17, 25>>, !.off_3out = <<19, 100>>]

\* an average team that plays 12.5 drives a game on both sides of the ball
TeamFast ==
    [TeamAvg EXCEPT !.Team = "Fast", !.off_drives = <<25, 2>>, !.def_drives = <<25, 2>>]

\* the two teams of the drives-sum regression scenario: 12 / 12.5 and 11.5 / 11
\* drives a game, no pace adjustment
TeamPaceH ==
    [TeamAvg EXCEPT !.Team = "PaceH", !.off_drives = Num(12), !.def_drives = <<25, 2>>]

TeamPaceA ==
    [TeamAvg EXCEPT !.Team = "PaceA", !.off_drives = <<23, 2>>, !.def_drives = Num(11)]

\* an offense two league SDs above average in every metric, and a defense
\* whose allowed values are two league SDs below average; the nets are
\* z(offense) - z(allowed), so Elite against Stingy has every net at +4
TeamElite ==
    [TeamAvg EXCEPT !.Team = "Elite",
       !.off_ppd = <<29, 10>>, !.off_epa = <<69, 250>>, !.off_sr = <<53, 100>>,
       !.off_xpl = <<179, 1000>>, !.off_rz = <<4, 5>>, !.off_3out = <<7, 50>>]

TeamStingy ==
    [TeamAvg EXCEPT !.Team = "Stingy",
       !.def_ppd_allowed = <<61, 50>>, !.def_epa_allowed = <<-29, 125>>,
       !.def_sr = <<33, 100>>, !.def_xpl = <<47, 1000>>, !.def_rz = <<8, 25>>,
       !.def_3out = <<17, 50>>]

\* extreme rows: EPA and success rate 400 league SDs above / below the mean,
\* and the fastest / slowest pace
TeamHi ==
    [TeamAvg EXCEPT !.Team = "Hi", !.off_epa = <<25411, 500>>, !.off_sr = <<2043, 100>>,
       !.off_drives = Num(20), !.def_drives = Num(20), !.no_huddle = Num(1),
       !.ed_pass = Num(1)]

TeamLo ==
    [TeamAvg EXCEPT !.Team = "Lo", !.off_epa = <<-25389, 500>>, !.off_sr = <<-1957, 100>>,
       !.off_drives = Num(6), !.def_drives = Num(6), !.no_huddle = Num(0),
       !.ed_pass = Num(0)]

\* a row whose success-rate and 3-and-out cells are in percent units without
\* a % sign ("43", "22", "27"): pctToFloat / parsePct keep such a number as
\* it is
TeamPct ==
    [TeamAvg EXCEPT !.Team = "Pct", !.off_sr = Num(43), !.def_sr = Num(43),
       !.off_3out = Num(22), !.def_3out = Num(27)]

Teams ==
    {TeamAvg, TeamStrong, TeamElite, TeamStingy, TeamFast, TeamPaceH, TeamPaceA, TeamHi, TeamLo}

\* the values the HFA input holds
HfaValues == {Num(0), Num(3), Num(-3), Num(60), Num(150)}

DiscreteEngines == {"w8", "orig"}

GaussEngines == {"fixed", "v3", "v2"}

(***************************************************************************)
(* State                                                                   *)
(***************************************************************************)
VARIABLES
    engine,        \* which simulator runs
    pc,            \* position of the run
    home, away,    \* teamDB[homeTeam], teamDB[awayTeam]
    hfa,           \* hfaPoints / hfaAdjustment
    netsHome, netsAway,
    pace,          \* { gameDrives, posShare } and the drives before adjustment
    proj,          \* the two projections (Gaussian) or the drive setup (discrete)
    N,             \* the trial count the loop runs to
    k,             \* drive counter of a sampling loop of simulateOne
    hs, as,        \* the scores simulateOne is accumulating
    homeScores, awayScores, totals, spreads,   \* the per-trial arrays
    numSim,        \* the trial-count input state
    marketTotal, marketSpread,                 \* the market-line input texts
    results,       \* the stored summary (null until a run stores one)
    teamDB,        \* the loaded team records (teams of v4)
    teamList,      \* the sorted names offered by the two selects
    dataHealth,    \* the teams of the upload with defaulted fields
    leagueParams,  \* v4: the upload the league baseline was computed from
    homeTeam, awayTeam,   \* the selection (v4: the selected team objects)
    uploadStatus,  \* the status line (v4: uploadError)
    uploads,       \* how many uploads have been started
    reader,        \* the team file being read, if any
    timer,         \* the closure of the deferred run callback, if pending
    batchReader,   \* v4: the games file being read and the teams its callback sees
    batchGames,    \* v4: the games of the batch file
    batch,         \* v4: the closure and the position of the running batch loop
    batchResults,  \* v4: the results the batch loop stored
    threw,         \* an exception left a handler uncaught
    isSim,         \* the flag that disables the Run button (isSimulating)
    isBatchSimulating, batchProgress,   \* v4: the flag and the progress of the batch
    call, ret      \* a helper function under test: its arguments and its result

modelVars == <<engine, home, away, hfa, netsHome, netsAway, pace, proj>>

trialVars == <<N, k, hs, as, homeScores, awayScores, totals, spreads>>

runVars == <<numSim, marketTotal, marketSpread, results>>

appVars ==
    <<teamDB, teamList, dataHealth, leagueParams, homeTeam, awayTeam, uploadStatus,
      uploads, reader, timer, batchReader, batchGames, batch, batchResults, threw,
      isSim, isBatchSimulating, batchProgress>>

flagVars == <<isSim, isBatchSimulating, batchProgress>>

callVars == <<call, ret>>

vars == <<pc, modelVars, trialVars, runVars, appVars, callVars>>

None == [none |-> TRUE]

(***************************************************************************)
(* The steps of run() / runSimulation() up to the trial loop               *)
(***************************************************************************)
\* L of the ensemble component: PPD 2.06 (sd 0.42), EPA 0.022 (0.127),
\* SR 0.43 (0.05), Xpl 0.113 (0.033), RZ 0.56 (0.12), ThreeOut 0.24 (0.05),
\* Pen 0.44 (0.12), DVOA_sd 0.10, TOEPA_sd 0.05, FP_mu 25, FP_sd 3
lg_ens ==
    [PPD |-> <<103, 50>>, PPD_sd |-> <<21, 50>>,
     EPA |-> <<11, 500>>, EPA_sd |-> <<127, 1000>>,
     SR |-> <<43, 100>>, SR_sd |-> <<1, 20>>,
     Xpl |-> <<113, 1000>>, Xpl_sd |-> <<33, 1000>>,
     RZ |-> <<14, 25>>, RZ_sd |-> <<3, 25>>,
     ThreeOut |-> <<6, 25>>, ThreeOut_sd |-> <<1, 20>>,
     Pen |-> <<11, 25>>, Pen_sd |-> <<3, 25>>,
     DVOA_sd |-> <<1, 10>>, TOEPA_sd |-> <<1, 20>>,
     FP_mu |-> <<25, 1>>, FP_sd |-> <<3, 1>>]

\* W = normalize(BASE): each weight of BASE divided by the sum 1.54 of the
\* absolute weights
weights_ens ==
    [EPA |-> <<20, 77>>, SR |-> <<10, 77>>, PPD_resid |-> <<10, 77>>,
     Xpl |-> <<5, 77>>, RZ |-> <<5, 77>>, ThreeOut_eff |-> <<-10, 77>>,
     DVOA |-> <<6, 77>>, TO_EPA |-> <<4, 77>>, FP |-> <<4, 77>>,
     Penalty |-> <<3, 77>>]

\* z of the ensemble component: 0 for a degenerate sd or a non-finite
\* value, otherwise the z-score clamped to [-3.5, 3.5]
z_ens(v, m, s) ==
    IF ~isFinite(s) \/ s = Num(0) \/ ~isFinite(v) THEN Num(0)
    ELSE MathMax(<<-7, 2>>, MathMin(<<7, 2>>, FDiv(FSub(v, m), s)))

\* computeNets of the ensemble component (off_pen and def_pen are the
\* penalty fields of the record)
computeNets(team, opp) ==
    LET L == lg_ens
        W == weights_ens
        epa_net == FAdd(z_ens(team.off_epa, L.EPA, L.EPA_sd),
                        z_ens(opp.def_epa_allowed, L.EPA, L.EPA_sd))
        sr_net  == FAdd(z_ens(team.off_sr, L.SR, L.SR_sd),
                        z_ens(opp.def_sr, L.SR, L.SR_sd))
        ppd_net == FAdd(z_ens(team.off_ppd, L.PPD, L.PPD_sd),
                        z_ens(opp.def_ppd_allowed, L.PPD, L.PPD_sd))
        xpl_net == FAdd(z_ens(team.off_xpl, L.Xpl, L.Xpl_sd),
                        z_ens(opp.def_xpl, L.Xpl, L.Xpl_sd))
        rz_net  == FAdd(z_ens(team.off_rz, L.RZ, L.RZ_sd),
                        z_ens(opp.def_rz, L.RZ, L.RZ_sd))
        out_eff == FSub(z_ens(team.off_3out, L.ThreeOut, L.ThreeOut_sd),
                        z_ens(opp.def_3out, L.ThreeOut, L.ThreeOut_sd))
        ppd_resid == FSub(ppd_net, FAdd(FMul(PPD_RESID_C1, epa_net),
                                        FMul(PPD_RESID_C2, sr_net)))
        dvoa_net == FSub(FDiv(team.off_dvoa, L.DVOA_sd), FDiv(opp.def_dvoa, L.DVOA_sd))
        z_to == FDiv(team.off_to_epa, L.TOEPA_sd)
        z_fp == FDiv(FSub(team.off_fp, L.FP_mu), L.FP_sd)
        pen_mix == FAdd(FNeg(z_ens(team.off_penalties, L.Pen, L.Pen_sd)),
                        z_ens(opp.def_penalties, L.Pen, L.Pen_sd))
    IN  [epa_net |-> epa_net, sr_net |-> sr_net, ppd_resid |-> ppd_resid,
         xpl_net |-> xpl_net, rz_net |-> rz_net, out_eff |-> out_eff,
         dvoa_net |-> dvoa_net, z_to |-> z_to, z_fp |-> z_fp, pen_mix |-> pen_mix,
         ensemble_z |->
             FAdd(FAdd(FAdd(FAdd(FAdd(FAdd(FAdd(FAdd(FAdd(
                 FMul(W.EPA, epa_net), FMul(W.SR, sr_net)),
                 FMul(W.PPD_resid, ppd_resid)), FMul(W.Xpl, xpl_net)),
                 FMul(W.RZ, rz_net)), FMul(W.ThreeOut_eff, out_eff)),
                 FMul(W.DVOA, dvoa_net)), FMul(W.TO_EPA, z_to)),
                 FMul(W.FP, z_fp)), FMul(W.Penalty, pen_mix))]

\* mapZtoPPD of the ensemble component
mapZtoPPD(zval) ==
    MathMax(<<2, 5>>, MathMin(Num(4), FAdd(lg_ens.PPD, FMul(zval, lg_ens.PPD_sd))))

\* computePace of the ensemble component
computePace_ens(H, A, netsH) ==
    LET nh == FDiv(FAdd(OrZero(H.no_huddle), OrZero(A.no_huddle)), Num(2))
        ed == FDiv(FAdd(FSub(OrZero(H.ed_pass), <<1, 2>>),
                        FSub(OrZero(A.ed_pass), <<1, 2>>)), Num(2))
        base == FAdd(FDiv(FAdd(H.off_drives, A.def_drives), Num(2)),
                     FDiv(FAdd(A.off_drives, H.def_drives), Num(2)))
    IN  [gameDrives |->
             MathMin(Num(30), MathMax(Num(20),
                 FMul(base, FAdd(FAdd(Num(1), FMul(<<1, 5>>, nh)), FMul(<<1, 10>>, ed))))),
         posShare |->
             MathMax(<<21, 50>>, MathMin(<<29, 50>>,
                 FAdd(<<1, 2>>, FMul(<<2, 25>>,
                     FAdd(netsH.sr_net, FMul(<<1, 2>>, netsH.epa_net))))))]

\* run of the ensemble component from the nets to the two means: the home
\* points per drive is mapZtoPPD plus hfaAdjustment / homeDrives
runMeans_ens(nH, nA, gameDrives, posShare, hfaAdjustment) ==
    LET ppdH == FAdd(mapZtoPPD(nH.ensemble_z),
                     FDiv(hfaAdjustment, FMul(gameDrives, posShare)))
        ppdA == mapZtoPPD(nA.ensemble_z)
    IN  [home |-> [ppd |-> ppdH, points |-> FMul(FMul(ppdH, gameDrives), posShare)],
         away |-> [ppd |-> ppdA,
                   points |-> FMul(FMul(ppdA, gameDrives), FSub(Num(1), posShare))]]

netsOf(e, off, def) ==
    IF e \in DiscreteEngines THEN buildNets(off, def)
    ELSE IF e = "ens" THEN computeNets(off, def)
    ELSE computeNetFeatures(off, def)

paceOf(e, H, A, nH) ==
    CASE e = "w8"    -> computePace_w8(H, A, nH)
      [] e = "orig"  -> computePace_orig(H, A, nH)
      [] e = "fixed" -> computeGamePace_fixed(H, A, A, H, nH)
      [] e = "v3"    -> computeGamePace_v3(H, A, A, H, nH)
      [] e = "v2"    -> computeGamePace_v2(H, A, A, H, nH)
      [] e = "ens"   -> computePace_ens(H, A, nH)

projOf(e, H, A, nH, nA, gameDrives, posShare, h) ==
    CASE e = "w8"    -> simulateOne_w8(H, A, nH, nA, gameDrives, posShare,
                                       MathMax(Num(0), OrZero(h)))
      [] e = "orig"  -> simulateOne_orig(H, A, nH, nA, gameDrives, posShare,
                                         MathMax(Num(0), OrZero(h)))
      [] e = "fixed" -> [home |-> estimateScore_fixed(H, A, TRUE, h, gameDrives, posShare, nH),
                         away |-> estimateScore_fixed(A, H, FALSE, h, gameDrives, posShare, nA)]
      [] e = "v3"    -> [home |-> estimateScore_v3(H, A, TRUE, h, gameDrives, posShare, nH),
                         away |-> estimateScore_v3(A, H, FALSE, h, gameDrives, posShare, nA)]
      [] e = "v2"    -> [home |-> estimateScore_v2(H, A, TRUE, h, gameDrives, posShare, nH),
                         away |-> estimateScore_v2(A, H, FALSE, h, gameDrives, posShare, nA)]
      [] e = "ens"   -> runMeans_ens(nH, nA, gameDrives, posShare, h)

\* nothing sampled, nothing entered, nothing stored
IdleTrial ==
    /\ N = None /\ k = 0 /\ hs = Num(0) /\ as = Num(0)
    /\ homeScores = <<>> /\ awayScores = <<>> /\ totals = <<>> /\ spreads = <<>>

IdleRun ==
    /\ numSim = None /\ marketTotal = "" /\ marketSpread = "" /\ results = None

\* nothing uploaded, nothing selected, no callback pending
IdleApp ==
    /\ teamDB = {} /\ teamList = <<>> /\ dataHealth = {} /\ leagueParams = 0
    /\ homeTeam = "" /\ awayTeam = "" /\ uploadStatus = "" /\ uploads = 0
    /\ reader = None /\ timer = None /\ batchReader = None /\ batchGames = <<>>
    /\ batch = None /\ batchResults = <<>> /\ threw = FALSE
    /\ isSim = FALSE /\ isBatchSimulating = FALSE /\ batchProgress = <<0, 1>>

\* no helper function is under test
IdleCall == call = None /\ ret = None

InitModel ==
    /\ engine \in DiscreteEngines \cup GaussEngines
    /\ home \in Teams
    /\ away \in Teams
    /\ hfa \in HfaValues
    /\ pc = "start"
    /\ netsHome = None
    /\ netsAway = None
    /\ pace = None
    /\ proj = None
    /\ IdleTrial
    /\ IdleRun
    /\ IdleApp
    /\ IdleCall

BuildNets ==
    /\ pc = "start"
    /\ netsHome' = netsOf(engine, home, away)
    /\ netsAway' = netsOf(engine, away, home)
    /\ pc' = "nets"
    /\ UNCHANGED <<engine, home, away, hfa, pace, proj, trialVars, runVars, appVars, callVars>>

ComputePace ==
    /\ pc = "nets"
    /\ pace' = paceOf(engine, home, away, netsHome)
    /\ pc' = "paced"
    /\ UNCHANGED <<engine, home, away, hfa, netsHome, netsAway, proj, trialVars, runVars, appVars, callVars>>

Project ==
    /\ pc = "paced"
    /\ proj' = projOf(engine, home, away, netsHome, netsAway, pace.gameDrives,
                      pace.posShare, hfa)
    /\ pc' = "projected"
    /\ UNCHANGED <<engine, home, away, hfa, netsHome, netsAway, pace, trialVars, runVars, appVars, callVars>>

NextModel == BuildNets \/ ComputePace \/ Project

SpecModel == InitModel /\ [][NextModel]_vars

(***************************************************************************)
(* Properties of the projection pipeline                                   *)
(***************************************************************************)
InRange(x, lo, hi) == FLe(lo, x) /\ FLe(x, hi)

\* the projection the run would have made with the HFA input at 0
projNoHfa ==
    projOf(engine, home, away, netsHome, netsAway, pace.gameDrives, pace.posShare, Num(0))

\* C3: in the Gaussian scoring model the home expected points with home-field
\* advantage h exceed the home expected points with home-field advantage 0 by
\* exactly h, and the away expected points are the same in both cases.
C3_HfaShiftIsExact ==
    (pc = "projected" /\ engine \in GaussEngines) =>
        /\ FSub(proj.home.points, projNoHfa.home.points) = hfa
        /\ proj.away.points = projNoHfa.away.points

\* the sum of the two per-team averages, as the claim writes it
SumOfAverages(H, A) ==
    FAdd(FDiv(FAdd(H.off_drives, A.def_drives), Num(2)),
         FDiv(FAdd(A.off_drives, H.def_drives), Num(2)))

\* C4: in computePace of w8 and computeGamePace of v2 / v3 the combined drives
\* before the pace factor and the clamp are the sum of the two per-team
\* averages; 12, 11, 11.5, 12.5 give 23.5 (which, with no pace adjustment,
\* is also the game drives returned).
C4_BaseDrivesIsSumOfAverages ==
    (pc \in {"paced", "projected"} /\ engine \in {"w8", "v3", "v2"}) =>
        /\ pace.baseDrives = SumOfAverages(home, away)
        /\ (home = TeamPaceH /\ away = TeamPaceA) =>
               /\ pace.baseDrives = Rat(47, 2)
               /\ pace.gameDrives = Rat(47, 2)

C4_Witness ==
    /\ pc = "paced" /\ engine = "w8"
    /\ home = TeamPaceH /\ away = TeamPaceA
    /\ home.off_drives = Num(12) /\ away.def_drives = Num(11)
    /\ away.off_drives = Rat(23, 2) /\ home.def_drives = Rat(25, 2)
    /\ pace.gameDrives = Rat(47, 2)

IsProb(p) == InRange(p, Num(0), Num(1))

ProbsWellFormed(p) ==
    /\ IsProb(p.p3O) /\ IsProb(p.pTD) /\ IsProb(p.pFG) /\ IsProb(p.pEmpty)
    /\ IsProb(FAdd(FAdd(FAdd(p.p3O, p.pTD), p.pFG), p.pEmpty))

SamePerDriveProjection ==
    IF engine \in DiscreteEngines
    THEN /\ proj.home.prob.p3O = proj.away.prob.p3O
         /\ proj.home.prob.pTD = proj.away.prob.pTD
         /\ proj.home.prob.pFG = proj.away.prob.pFG
    ELSE /\ proj.home.ppd = proj.away.ppd
         /\ proj.home.std_dev = proj.away.std_dev

\* both sides get the same number of drives and the same expected score
SameDrivesAndScore ==
    /\ proj.home.drives = proj.away.drives
    /\ engine \in GaussEngines => proj.home.points = proj.away.points

\* SR_net + 0.5 * EPA_net of the home-perspective nets, the signal that moves
\* the possession share away from 0.5
ShareSignal ==
    IF engine \in DiscreteEngines
    THEN FAdd(netsHome.SR_net, FMul(Rat(1, 2), netsHome.EPA_net))
    ELSE FAdd(netsHome.sr_net, FMul(Rat(1, 2), netsHome.epa_net))

\* C7 as stated: with identical statistics on both sides and HFA = 0 the
\* possession share is 0.5 and both sides get the same number of drives and the
\* same projection.
C7_IdenticalTeamsTreatedAlike ==
    (pc = "projected" /\ home = away /\ hfa = Num(0)) =>
        /\ pace.posShare = Rat(1, 2)
        /\ SamePerDriveProjection
        /\ SameDrivesAndScore

\* C7 amended: with identical statistics on both sides and HFA = 0 both sides
\* get the same per-drive projection; the possession share is 0.5 exactly when
\* the team's own SR_net + 0.5 * EPA_net is 0 (as for league-average rows), and
\* then the Gaussian engines give both sides the same drives and expected
\* points, while the integer drive counts of the discrete engines are
\* round(g / 2) and round(g - round(g / 2)), equal or one apart.
C7_IdenticalTeamsAmended ==
    (pc = "projected" /\ home = away /\ hfa = Num(0)) =>
        /\ SamePerDriveProjection
        /\ (pace.posShare = Rat(1, 2)) <=> (ShareSignal = Num(0))
        /\ (ShareSignal = Num(0) /\ engine \in GaussEngines) => SameDrivesAndScore
        /\ (ShareSignal = Num(0) /\ engine \in DiscreteEngines) =>
               /\ proj.home.drives = MathRound(FDiv(pace.gameDrives, Num(2)))
               /\ FSub(proj.home.drives, proj.away.drives) \in {Num(0), Num(1), Num(-1)}

\* league-average rows on both sides: everything is symmetric
C7_Witness ==
    /\ pc = "projected" /\ home = TeamAvg /\ away = TeamAvg /\ hfa = Num(0)
    /\ pace.posShare = Rat(1, 2)
    /\ SameDrivesAndScore

\* C16: in computeGamePace of fixed and computePace of orig the combined drives
\* before the pace factor and the clamp are the sum of the two per-team
\* averages, so that 12, 11, 11.5, 12.5 give 23.5.
C16_HalvedEnginesSumTheAverages ==
    (pc \in {"paced", "projected"} /\ engine \in {"fixed", "orig"}) =>
        /\ pace.baseDrives = SumOfAverages(home, away)
        /\ (home = TeamPaceH /\ away = TeamPaceA) => pace.baseDrives = Rat(47, 2)

\* the HFA value run() hands to simulateOne
hfaOfRun == MathMax(Num(0), OrZero(hfa))

\* the sum of the three home probabilities after the tilt, before any rescaling
sumH ==
    FAdd(FAdd(clamp01(FMul(proj.base.home.p3O,
                           FSub(Num(1), FMul(Rat(1, 100), hfaOfRun)))),
              clamp01(FMul(proj.base.home.pTD,
                           FAdd(Num(1), FMul(Rat(2, 100), hfaOfRun))))),
         proj.base.home.pFG)

\* C17: after the home-field tilt and the renormalisation of simulateOne the
\* home p3O, pTD and pFG are each in [0, 1] and sum to at most 1; when the
\* tilted values needed no rescaling the home p3O is not larger and the home
\* pTD not smaller than the base value; the away probabilities are exactly
\* the base values.
C17_TiltKeepsHomeWellFormed ==
    (pc = "projected" /\ engine \in DiscreteEngines) =>
        /\ IsProb(proj.home.prob.p3O)
        /\ IsProb(proj.home.prob.pTD)
        /\ IsProb(proj.home.prob.pFG)
        /\ FLe(FAdd(FAdd(proj.home.prob.p3O, proj.home.prob.pTD), proj.home.prob.pFG),
               Num(1))
        /\ FLe(sumH, Num(1)) =>
               /\ FLe(proj.home.prob.p3O, proj.base.home.p3O)
               /\ FLe(proj.base.home.pTD, proj.home.prob.pTD)
        /\ proj.away.prob = proj.base.away

\* an HFA of 60 more than doubles the touchdown probability: the tilted
\* values sum to more than 1 and are scaled down to sum to exactly 1
C17_Witness ==
    /\ pc = "projected" /\ engine = "w8" /\ hfa = Num(60)
    /\ FGt(sumH, Num(1))
    /\ FAdd(FAdd(proj.home.prob.p3O, proj.home.prob.pTD), proj.home.prob.pFG) = Num(1)
    /\ proj.home.prob.pTD # proj.base.home.pTD
    /\ FGt(proj.base.away.pTD, Num(0))
    /\ proj.away.prob = proj.base.away

\* C18: in the discrete engines, for game drives in [20, 30] and a possession
\* share in [0.35, 0.65], the home side gets round(gameDrives * posShare)
\* drives and the away side round(gameDrives * (1 - posShare)).
C18_DrivesRoundedPerSide ==
    (/\ pc = "projected" /\ engine \in DiscreteEngines
     /\ InRange(pace.gameDrives, Num(20), Num(30))
     /\ InRange(pace.posShare, Rat(35, 100), Rat(65, 100))) =>
        /\ proj.home.drives = MathRound(FMul(pace.gameDrives, pace.posShare))
        /\ proj.away.drives =
               MathRound(FMul(pace.gameDrives, FSub(Num(1), pace.posShare)))

(***************************************************************************)
(* Trial sampling                                                          *)
(***************************************************************************)
\* the largest trial count the sampling specification runs a Gaussian loop to
MaxTrials == 2

\* the values Math.random() returns in the model, per kind of engine
GaussDraws == {Num(0), <<1, 2>>}

V4Draws == {Num(0), <<1, 8>>}

DriveDraws == {Num(0), <<1, 2>>, <<5, 8>>, <<7, 8>>}

\* Math.sqrt(-2 * Math.log(u)), to one decimal; Math.log(0) is -Infinity
Radial(u) ==
    CASE u = Num(0)    -> PosInf
      [] u = <<1, 8>> -> Num(2)
      [] u = <<1, 2>> -> <<6, 5>>

\* Math.cos(2 * Math.PI * u), to one decimal
Cosine(u) ==
    CASE u = Num(0)    -> Num(1)
      [] u = <<1, 8>> -> <<7, 10>>
      [] u = <<1, 2>> -> Num(-1)

\* Math.sin(2 * Math.PI * u), to one decimal
Sine(u) ==
    CASE u = Num(0)    -> Num(0)
      [] u = <<1, 8>> -> <<7, 10>>

\* faulty variant of gaussTrial: the spread is recorded as away minus home
gaussTrial_awayMinusHome(hp, ap, u1, u2, u3, u4) ==
    LET z1 == FMul(Radial(u1), Cosine(u2))
        homeScore == MathMax(Num(0), MathRound(FAdd(hp.points, FMul(z1, hp.std_dev))))
        z2 == FMul(Radial(u3), Cosine(u4))
        awayScore == MathMax(Num(0), MathRound(FAdd(ap.points, FMul(z2, ap.std_dev))))
    IN  [homeScore |-> homeScore, awayScore |-> awayScore,
         total |-> FAdd(homeScore, awayScore), spread |-> FSub(awayScore, homeScore)]

\* one iteration of the trial loop of runSimulation (fixed, v3, v2)
gaussTrial(hp, ap, u1, u2, u3, u4) ==
    LET z1 == FMul(Radial(u1), Cosine(u2))
        homeScore == MathMax(Num(0), MathRound(FAdd(hp.points, FMul(z1, hp.std_dev))))
        z2 == FMul(Radial(u3), Cosine(u4))
        awayScore == MathMax(Num(0), MathRound(FAdd(ap.points, FMul(z2, ap.std_dev))))
    IN  [homeScore |-> homeScore, awayScore |-> awayScore,
         total |-> FAdd(homeScore, awayScore), spread |-> FSub(homeScore, awayScore)]

\* sampleDrive with a touchdown that is worth 6 points
sampleDrive_noExtraPoint(p, r) ==
    IF FLt(r, p.p3O) THEN Num(0)
    ELSE IF FLt(r, FAdd(p.p3O, p.pTD)) THEN Num(6)
    ELSE IF FLt(r, FAdd(FAdd(p.p3O, p.pTD), p.pFG)) THEN Num(3)
    ELSE Num(0)

\* sampleDrive of simulateOne: the points of one drive for the draw r
sampleDrive(p, r) ==
    IF FLt(r, p.p3O) THEN Num(0)
    ELSE IF FLt(r, FAdd(p.p3O, p.pTD)) THEN Num(7)
    ELSE IF FLt(r, FAdd(FAdd(p.p3O, p.pTD), p.pFG)) THEN Num(3)
    ELSE Num(0)

\* the sigma functions of v4's simulateGame
sigmaMargin(expectedPts) ==
    MathMax(Rat(19, 2), MathMin(Rat(27, 2),
            FAdd(Num(8), FMul(Rat(18, 100), FSub(expectedPts, Num(20))))))

sigmaTotal(expectedPts) ==
    MathMax(Rat(21, 2), MathMin(Rat(31, 2),
            FAdd(Rat(17, 2), FMul(Rat(25, 100), FSub(expectedPts, Num(20))))))

\* one iteration of the trial loop of v4's simulateGame; e holds the four
\* expected points, rho, and rhoC = Math.sqrt(1 - rho * rho)
v4Trial(e, u1, u2, u3, u4) ==
    LET z1 == FMul(Radial(u1), Cosine(u2))
        z2 == FMul(Radial(u1), Sine(u2))
        z3 == FMul(Radial(u3), Cosine(u4))
        z4 == FMul(Radial(u3), Sine(u4))
        homeRandom == z1
        awayRandom == FAdd(FMul(e.rho, z1), FMul(e.rhoC, z2))
        homeScore_margin ==
            MathMax(Num(0), FAdd(e.homeExpPts_forMargin,
                                 FMul(homeRandom, sigmaMargin(e.homeExpPts_forMargin))))
        awayScore_margin ==
            MathMax(Num(0), FAdd(e.awayExpPts_forMargin,
                                 FMul(awayRandom, sigmaMargin(e.awayExpPts_forMargin))))
        homeRandom_total == FAdd(FMul(Rat(7, 10), z1), FMul(Rat(3, 10), z3))
        awayRandom_total ==
            FAdd(FMul(Rat(7, 10), FAdd(FMul(e.rho, z1), FMul(e.rhoC, z2))),
                 FMul(Rat(3, 10), z4))
        homeScore_total ==
            MathMax(Num(0), FAdd(e.homeExpPts_forTotal,
                                 FMul(homeRandom_total, sigmaTotal(e.homeExpPts_forTotal))))
        awayScore_total ==
            MathMax(Num(0), FAdd(e.awayExpPts_forTotal,
                                 FMul(awayRandom_total, sigmaTotal(e.awayExpPts_forTotal))))
        homeScoreRounded == MathRound(homeScore_margin)
        awayScoreRounded == MathRound(awayScore_margin)
        totalRounded == MathRound(FAdd(homeScore_total, awayScore_total))
    IN  [homeScore |-> homeScoreRounded, awayScore |-> awayScoreRounded,
         total |-> totalRounded, spread |-> FSub(homeScoreRounded, awayScoreRounded)]

\* expected points of two v4 games: a close game, and a two-touchdown favourite
\* (game-script adjustment -1.5 on the totals side)
V4Projections ==
    {[homeExpPts_forMargin |-> Num(24), awayExpPts_forMargin |-> Num(21),
      homeExpPts_forTotal |-> Num(24), awayExpPts_forTotal |-> Num(21),
      rho |-> <<1, 2>>, rhoC |-> <<87, 100>>],
     [homeExpPts_forMargin |-> Num(31), awayExpPts_forMargin |-> Num(16),
      homeExpPts_forTotal |-> <<121, 4>>, awayExpPts_forTotal |-> <<61, 4>>,
      rho |-> <<1, 5>>, rhoC |-> <<49, 50>>]}

TrialEngines == {"w8", "fixed", "v3", "v4"}

TrialMatchups == {<<TeamAvg, TeamAvg>>, <<TeamStrong, TeamAvg>>}

TrialHfaValues == {Num(0), Num(3)}

\* i < N of the trial loop, i being the number of trials recorded so far
LoopGoesOn == FLt(Num(Len(totals)), N)

InitTrial ==
    /\ engine \in TrialEngines
    /\ IF engine = "v4"
       THEN /\ home = None /\ away = None /\ hfa = Num(0)
            /\ proj \in V4Projections
            /\ pc = "projected"
       ELSE /\ \E m \in TrialMatchups : home = m[1] /\ away = m[2]
            /\ hfa \in TrialHfaValues
            /\ proj = None
            /\ pc = "start"
    /\ netsHome = None /\ netsAway = None /\ pace = None
    /\ N \in IF engine \in DiscreteEngines THEN {Num(1)} ELSE {Num(n) : n \in 1..MaxTrials}
    /\ k = 0 /\ hs = Num(0) /\ as = Num(0)
    /\ homeScores = <<>> /\ awayScores = <<>> /\ totals = <<>> /\ spreads = <<>>
    /\ IdleRun
    /\ IdleApp
    /\ IdleCall

\* the arrays after the trial t is pushed
PushTrial(t) ==
    /\ homeScores' = Append(homeScores, t.homeScore)
    /\ awayScores' = Append(awayScores, t.awayScore)
    /\ totals' = Append(totals, t.total)
    /\ spreads' = Append(spreads, t.spread)

GaussTrial ==
    /\ pc = "projected" /\ engine \in GaussEngines /\ LoopGoesOn
    /\ \E u1, u2, u3, u4 \in GaussDraws :
           PushTrial(gaussTrial(proj.home, proj.away, u1, u2, u3, u4))
    /\ UNCHANGED <<pc, modelVars, N, k, hs, as, runVars, appVars, callVars>>

V4Trial ==
    /\ pc = "projected" /\ engine = "v4" /\ LoopGoesOn
    /\ \E u1, u2, u3, u4 \in V4Draws : PushTrial(v4Trial(proj, u1, u2, u3, u4))
    /\ UNCHANGED <<pc, modelVars, N, k, hs, as, runVars, appVars, callVars>>

\* simulateOne is entered: the scores start at 0
BeginTrial ==
    /\ pc = "projected" /\ engine \in DiscreteEngines /\ LoopGoesOn
    /\ hs' = Num(0) /\ as' = Num(0) /\ k' = 0
    /\ pc' = "homeDrives"
    /\ UNCHANGED <<modelVars, N, homeScores, awayScores, totals, spreads, runVars, appVars, callVars>>

SampleHomeDrive ==
    /\ pc = "homeDrives" /\ FLt(Num(k), proj.home.drives)
    /\ \E r \in DriveDraws : hs' = FAdd(hs, sampleDrive(proj.home.prob, r))
    /\ k' = k + 1
    /\ UNCHANGED <<pc, modelVars, N, as, homeScores, awayScores, totals, spreads, runVars, appVars, callVars>>

HomeDrivesDone ==
    /\ pc = "homeDrives" /\ ~FLt(Num(k), proj.home.drives)
    /\ k' = 0
    /\ pc' = "awayDrives"
    /\ UNCHANGED <<modelVars, N, hs, as, homeScores, awayScores, totals, spreads, runVars, appVars, callVars>>

SampleAwayDrive ==
    /\ pc = "awayDrives" /\ FLt(Num(k), proj.away.drives)
    /\ \E r \in DriveDraws : as' = FAdd(as, sampleDrive(proj.away.prob, r))
    /\ k' = k + 1
    /\ UNCHANGED <<pc, modelVars, N, hs, homeScores, awayScores, totals, spreads, runVars, appVars, callVars>>

\* simulateOne returns { hs, as } and run() records totals[i] and spreads[i]
RecordTrial ==
    /\ pc = "awayDrives" /\ ~FLt(Num(k), proj.away.drives)
    /\ PushTrial([homeScore |-> hs, awayScore |-> as,
                  total |-> FAdd(hs, as), spread |-> FSub(hs, as)])
    /\ pc' = "projected"
    /\ UNCHANGED <<modelVars, N, k, hs, as, runVars, appVars, callVars>>

LoopExit ==
    /\ pc = "projected" /\ ~LoopGoesOn
    /\ pc' = "sampled"
    /\ UNCHANGED <<modelVars, trialVars, runVars, appVars, callVars>>

NextTrial ==
    \/ BuildNets \/ ComputePace \/ Project
    \/ GaussTrial \/ V4Trial
    \/ BeginTrial \/ SampleHomeDrive \/ HomeDrivesDone \/ SampleAwayDrive \/ RecordTrial
    \/ LoopExit

SpecTrial == InitTrial /\ [][NextTrial]_vars

(***************************************************************************)
(* Properties of the trial loop                                            *)
(***************************************************************************)
Trials == 1..Len(totals)

\* C1: in every trial of the Gaussian engines and of the discrete engine the
\* home score and the away score recorded are non-negative integers, never
\* negative, fractional, NaN or infinite, for every uniform draw in [0, 1).
C1_ScoresAreNonNegativeIntegers ==
    engine \in GaussEngines \cup DiscreteEngines =>
        \A i \in Trials :
            IsNonNegInteger(homeScores[i]) /\ IsNonNegInteger(awayScores[i])

DefaultNumSim == 3

\* the texts typed into the trial-count input
NumSimTexts == {"", "0", "-5", ".5", "1", "2"}

\* a count above 2^32 - 1, the largest length of an array (kept as a token:
\* it does not fit a 32-bit integer)
HugeCount == <<"99999999999">>

\* parseInt of those texts
parseInt(text) ==
    CASE text = "0"  -> Num(0)
      [] text = "99999999999" -> HugeCount
      [] text = "-5" -> Num(-5)
      [] text = ".5" -> NaN
      [] text = "1"  -> Num(1)
      [] text = "2"  -> Num(2)
      [] text = ""   -> NaN

\* the texts of the market-line inputs (text fields: any text can be typed)
MarketTotalTexts == {"", "10", "abc"}

MarketSpreadTexts == {"", "-3", "3", "abc"}

\* parseFloat of those texts
parseFloat(text) ==
    CASE text = "10" -> Num(10)
      [] text = "-3" -> Num(-3)
      [] text = "3"  -> Num(3)
      [] text = "abc" -> NaN
      [] text = ""   -> NaN

\* the value the onChange handler of the trial-count input stores
numSimOf(text) == IF text = "" THEN Num(DefaultNumSim) ELSE parseInt(text)

\* N of the discrete engines: Math.max(1, parseInt(numSim || 10000))
trialCount_w8(ns) ==
    MathMax(Num(1), IF OrZero(ns) = Num(0) THEN Num(DefaultNumSim) ELSE ns)

\* the loop bound of the Gaussian engines is the input state itself
trialCount_gauss(ns) == ns

\* [...arr].sort((a, b) => a - b), by insertion
RECURSIVE InsertAsc(_, _)
InsertAsc(x, s) ==
    IF s = <<>> THEN <<x>>
    ELSE IF FLe(x, Head(s)) THEN <<x>> \o s
    ELSE <<Head(s)>> \o InsertAsc(x, Tail(s))

RECURSIVE SortAsc(_)
SortAsc(arr) == IF arr = <<>> THEN <<>> ELSE InsertAsc(Head(arr), SortAsc(Tail(arr)))

\* s[i] with a 0-based index: undefined outside the array
At(s, i) == IF 0 <= i /\ i < Len(s) THEN s[i + 1] ELSE Undefined

\* undefined in arithmetic is NaN
ToNumber(x) == IF x = Undefined THEN NaN ELSE x

RECURSIVE SumOf(_)
SumOf(arr) == IF arr = <<>> THEN Num(0) ELSE FAdd(Head(arr), SumOf(Tail(arr)))

mean(arr) == FDiv(SumOf(arr), Num(Len(arr)))

median(arr) ==
    LET sorted == SortAsc(arr)
        m == Len(sorted) \div 2
    IN  IF Len(sorted) % 2 = 1 THEN At(sorted, m)
        ELSE FDiv(FAdd(ToNumber(At(sorted, m - 1)), ToNumber(At(sorted, m))), Num(2))

IntMax(a, b) == IF a > b THEN a ELSE b

IntMin(a, b) == IF a < b THEN a ELSE b

\* faulty variant of pct: the index is rounded up
pct_ceil(arr, p) ==
    LET sorted == SortAsc(arr)
        i == -(MathFloor(FNeg(FMul(Num(Len(sorted) - 1), p)))[1])
    IN  At(sorted, IntMax(0, IntMin(Len(sorted) - 1, i)))

\* pct of w8 and v3: the element at index floor((n - 1) * p)
pct(arr, p) ==
    LET sorted == SortAsc(arr)
        i == MathFloor(FMul(Num(Len(sorted) - 1), p))[1]
    IN  At(sorted, IntMax(0, IntMin(Len(sorted) - 1, i)))

\* percentile of fixed: the element at index floor(n * p)
percentile_fixed(arr, p) ==
    LET sorted == SortAsc(arr)
        idx == MathFloor(FMul(Num(Len(sorted)), p))[1]
    IN  At(sorted, IntMin(IntMax(idx, 0), Len(sorted) - 1))

\* percentile of v4: linear interpolation at (p / 100) * (n - 1)
percentile_v4(arr, p) ==
    LET sorted == SortAsc(arr)
        index == FMul(FDiv(p, Num(100)), Num(Len(sorted) - 1))
        lower == MathFloor(index)[1]
        upper == -(MathFloor(FNeg(index))[1])
        weight == FSub(index, Num(lower))
    IN  FAdd(FMul(ToNumber(At(sorted, lower)), FSub(Num(1), weight)),
             FMul(ToNumber(At(sorted, upper)), weight))

\* arr.filter(x => x > line).length and arr.filter(x => x < line).length
CountAbove(arr, line) == Cardinality({i \in 1..Len(arr) : FGt(arr[i], line)})

CountBelow(arr, line) == Cardinality({i \in 1..Len(arr) : FLt(arr[i], line)})

\* spreads.filter(s => s + (-mktSpr) > 0).length and its "< 0" twin
CountHomeCover(arr, mktSpr) ==
    Cardinality({i \in 1..Len(arr) : FGt(FAdd(arr[i], FNeg(mktSpr)), Num(0))})

CountAwayCover(arr, mktSpr) ==
    Cardinality({i \in 1..Len(arr) : FLt(FAdd(arr[i], FNeg(mktSpr)), Num(0))})

\* the summary of run() in w8 (orig has the same text)
summary_w8(tot, spr, n, mTotal, mSpread) ==
    LET mktTot == IF mTotal # "" THEN parseFloat(mTotal) ELSE Null
        mktSpr == IF mSpread # "" THEN parseFloat(mSpread) ELSE Null
    IN  [totalMean |-> mean(tot), totalMedian |-> median(tot),
         spreadMean |-> mean(spr), spreadMedian |-> median(spr),
         pOver |-> IF mktTot # Null THEN FDiv(Num(CountAbove(tot, mktTot)), n) ELSE Null,
         pUnder |-> IF mktTot # Null THEN FDiv(Num(CountBelow(tot, mktTot)), n) ELSE Null,
         pHomeCover |-> IF mktSpr # Null THEN FDiv(Num(CountHomeCover(spr, mktSpr)), n)
                        ELSE Null,
         pAwayCover |-> IF mktSpr # Null THEN FDiv(Num(CountAwayCover(spr, mktSpr)), n)
                        ELSE Null,
         totalDist |-> [p10 |-> pct(tot, Rat(10, 100)), p25 |-> pct(tot, Rat(25, 100)),
                        p50 |-> pct(tot, Rat(50, 100)), p75 |-> pct(tot, Rat(75, 100)),
                        p90 |-> pct(tot, Rat(90, 100))],
         spreadDist |-> [p10 |-> pct(spr, Rat(10, 100)), p25 |-> pct(spr, Rat(25, 100)),
                         p50 |-> pct(spr, Rat(50, 100)), p75 |-> pct(spr, Rat(75, 100)),
                         p90 |-> pct(spr, Rat(90, 100))]]

\* the summary of runSimulation in v3: as w8, the counts divided by numSimulations
summary_v3(tot, spr, numSimulations, mTotal, mSpread) ==
    LET mktTot == IF mTotal # "" THEN parseFloat(mTotal) ELSE Null
        mktSpr == IF mSpread # "" THEN parseFloat(mSpread) ELSE Null
    IN  [totalMean |-> mean(tot), totalMedian |-> median(tot),
         spreadMean |-> mean(spr), spreadMedian |-> median(spr),
         pOver |-> IF mktTot # Null THEN FDiv(Num(CountAbove(tot, mktTot)), numSimulations)
                   ELSE Null,
         pUnder |-> IF mktTot # Null THEN FDiv(Num(CountBelow(tot, mktTot)), numSimulations)
                    ELSE Null,
         pHomeCover |-> IF mktSpr # Null
                        THEN FDiv(Num(CountHomeCover(spr, mktSpr)), numSimulations)
                        ELSE Null,
         pAwayCover |-> IF mktSpr # Null
                        THEN FDiv(Num(CountAwayCover(spr, mktSpr)), numSimulations)
                        ELSE Null,
         totalDist |-> [p10 |-> pct(tot, Rat(10, 100)), p25 |-> pct(tot, Rat(25, 100)),
                        p50 |-> pct(tot, Rat(50, 100)), p75 |-> pct(tot, Rat(75, 100)),
                        p90 |-> pct(tot, Rat(90, 100))],
         spreadDist |-> [p10 |-> pct(spr, Rat(10, 100)), p25 |-> pct(spr, Rat(25, 100)),
                         p50 |-> pct(spr, Rat(50, 100)), p75 |-> pct(spr, Rat(75, 100)),
                         p90 |-> pct(spr, Rat(90, 100))]]

\* parseNum(val, null) of fixed on a market-line text
parseNumOrNull(text) ==
    IF text = "" \/ isNaN(parseFloat(text)) THEN Null ELSE parseFloat(text)

\* the summary of runSimulation in fixed: the counts divided by the array length
summary_fixed(tot, spr, mTotal, mSpread) ==
    LET mktTot == parseNumOrNull(mTotal)
        mktSpr == parseNumOrNull(mSpread)
        len == Num(Len(tot))
    IN  [totalMean |-> mean(tot), totalMedian |-> median(tot),
         spreadMean |-> mean(spr), spreadMedian |-> median(spr),
         pOver |-> IF mktTot # Null THEN FDiv(Num(CountAbove(tot, mktTot)), len) ELSE Null,
         pUnder |-> IF mktTot # Null THEN FDiv(Num(CountBelow(tot, mktTot)), len) ELSE Null,
         pHomeCover |-> IF mktSpr # Null THEN FDiv(Num(CountHomeCover(spr, mktSpr)), len)
                        ELSE Null,
         pAwayCover |-> IF mktSpr # Null THEN FDiv(Num(CountAwayCover(spr, mktSpr)), len)
                        ELSE Null,
         totalDist |-> [p10 |-> percentile_fixed(tot, Rat(10, 100)),
                        p25 |-> percentile_fixed(tot, Rat(25, 100)),
                        p50 |-> percentile_fixed(tot, Rat(50, 100)),
                        p75 |-> percentile_fixed(tot, Rat(75, 100)),
                        p90 |-> percentile_fixed(tot, Rat(90, 100))],
         spreadDist |-> [p10 |-> percentile_fixed(spr, Rat(10, 100)),
                         p25 |-> percentile_fixed(spr, Rat(25, 100)),
                         p50 |-> percentile_fixed(spr, Rat(50, 100)),
                         p75 |-> percentile_fixed(spr, Rat(75, 100)),
                         p90 |-> percentile_fixed(spr, Rat(90, 100))]]

\* count / n * 100
Pct100(count, n) == FMul(FDiv(Num(count), n), Num(100))

\* calculateResults of v4: the over/under and spread analysis and the two
\* projections built from the totals and the margins
calculateResults(tot, margins, n, overUnderLine, spreadLine) ==
    LET overCount == CountAbove(tot, overUnderLine)
        underCount == CountBelow(tot, overUnderLine)
        pushCount == Len(tot) - overCount - underCount
        threshold == FNeg(spreadLine)
        homeCoverCount == CountAbove(margins, threshold)
        awayCoverCount == CountBelow(margins, threshold)
        spreadPushCount == Len(margins) - homeCoverCount - awayCoverCount
    IN  [numSimulations |-> n,
         overUnder |-> [line |-> overUnderLine, overPct |-> Pct100(overCount, n),
                        underPct |-> Pct100(underCount, n),
                        pushPct |-> Pct100(pushCount, n)],
         spread |-> [line |-> spreadLine, homeCoverPct |-> Pct100(homeCoverCount, n),
                     awayCoverPct |-> Pct100(awayCoverCount, n),
                     pushPct |-> Pct100(spreadPushCount, n)],
         totalProjection |-> [mean |-> FDiv(SumOf(tot), n),
                              median |-> percentile_v4(tot, Num(50)),
                              p10 |-> percentile_v4(tot, Num(10)),
                              p90 |-> percentile_v4(tot, Num(90))],
         marginProjection |-> [mean |-> FDiv(SumOf(margins), n),
                               median |-> percentile_v4(margins, Num(50)),
                               p10 |-> percentile_v4(margins, Num(10)),
                               p90 |-> percentile_v4(margins, Num(90))]]

\* what a trial leaves in the arrays: the two scores and, for v4, the total
\* of its separate totals model
TrialOutcomes ==
    {[hs |-> Num(3), as |-> Num(0), totalRounded |-> Num(3)],
     [hs |-> Num(7), as |-> Num(3), totalRounded |-> Num(9)],
     [hs |-> Num(0), as |-> Num(7), totalRounded |-> Num(7)],
     [hs |-> Num(7), as |-> Num(7), totalRounded |-> Num(14)]}

RunEngines == {"w8", "fixed", "v3", "v4"}

InitRun ==
    /\ engine \in RunEngines
    /\ pc = "idle"
    /\ home = None /\ away = None /\ hfa = Num(0)
    /\ netsHome = None /\ netsAway = None /\ pace = None /\ proj = None
    /\ IdleTrial
    /\ numSim = Num(DefaultNumSim)
    /\ marketTotal \in MarketTotalTexts
    /\ marketSpread \in MarketSpreadTexts
    /\ engine = "v4" => marketTotal # "abc" /\ marketSpread # "abc"
    /\ results = None
    /\ IdleApp
    /\ IdleCall

\* onChange of the trial-count input (v4 has no such input)
SetNumSim ==
    /\ pc = "idle" /\ engine # "v4"
    /\ \E text \in NumSimTexts : numSim' = numSimOf(text)
    /\ UNCHANGED <<pc, modelVars, trialVars, marketTotal, marketSpread, results, appVars, callVars>>

\* the click on Run, up to the head of the trial loop
Run ==
    /\ pc = "idle"
    /\ N' = CASE engine \in DiscreteEngines -> trialCount_w8(numSim)
              [] engine \in GaussEngines    -> trialCount_gauss(numSim)
              [] engine = "v4"              -> Num(DefaultNumSim)
    /\ homeScores' = <<>> /\ awayScores' = <<>> /\ totals' = <<>> /\ spreads' = <<>>
    /\ pc' = "loop"
    /\ UNCHANGED <<modelVars, k, hs, as, runVars, appVars, callVars>>

\* one iteration of the trial loop
Trial ==
    /\ pc = "loop" /\ LoopGoesOn
    /\ \E o \in TrialOutcomes :
           PushTrial([homeScore |-> o.hs, awayScore |-> o.as,
                      total |-> IF engine = "v4" THEN o.totalRounded ELSE FAdd(o.hs, o.as),
                      spread |-> FSub(o.hs, o.as)])
    /\ UNCHANGED <<pc, modelVars, N, k, hs, as, runVars, appVars, callVars>>

\* the loop is over: the summary is computed and stored
Finish ==
    /\ pc = "loop" /\ ~LoopGoesOn
    /\ results' =
           CASE engine \in DiscreteEngines -> summary_w8(totals, spreads, N, marketTotal,
                                                         marketSpread)
             [] engine = "fixed" -> summary_fixed(totals, spreads, marketTotal, marketSpread)
             [] engine = "v3"    -> summary_v3(totals, spreads, N, marketTotal, marketSpread)
             [] engine = "v4"    -> calculateResults(totals, spreads, N,
                                                     parseFloat(marketTotal),
                                                     parseFloat(marketSpread))
    /\ pc' = "done"
    /\ UNCHANGED <<modelVars, trialVars, numSim, marketTotal, marketSpread, appVars, callVars>>

NextRun == SetNumSim \/ Run \/ Trial \/ Finish

SpecRun == InitRun /\ [][NextRun]_vars

(***************************************************************************)
(* Properties of the summary                                               *)
(***************************************************************************)
CountLess(arr, v) == Cardinality({i \in 1..Len(arr) : FLt(arr[i], v)})

CountAtMost(arr, v) == Cardinality({i \in 1..Len(arr) : FLe(arr[i], v)})

\* the j-th smallest element of a non-empty array, j = 1 .. Len(arr)
KthSmallest(arr, j) ==
    CHOOSE v \in {arr[i] : i \in 1..Len(arr)} :
        CountLess(arr, v) < j /\ j <= CountAtMost(arr, v)

\* the median as the claim defines it
MedianOf(arr) ==
    LET n == Len(arr)
    IN  IF n % 2 = 1 THEN KthSmallest(arr, (n + 1) \div 2)
        ELSE FDiv(FAdd(KthSmallest(arr, n \div 2), KthSmallest(arr, n \div 2 + 1)), Num(2))

Summarised == pc = "done" /\ engine \in {"w8", "v3"} /\ Len(totals) >= 1

\* C8 as stated: for every non-empty trial sequence, of odd or even length, the
\* p50 of the percentile ladder equals the median reported for the same
\* sequence.
C8_P50EqualsMedian ==
    Summarised =>
        /\ results.totalDist.p50 = results.totalMedian
        /\ results.spreadDist.p50 = results.spreadMedian

\* C8 amended: the median reported is the middle element for odd N and the
\* midpoint of the two middle elements for even N; the p50 of the ladder is the
\* element at index floor((N - 1) / 2), which is the median for odd N and the
\* lower of the two middle elements for even N, so the two agree for even N
\* only when the two middle elements are equal.
C8_P50IsLowerMiddle ==
    Summarised =>
        LET n == Len(totals)
            lowerMiddle == (n + 1) \div 2
        IN  /\ results.totalMedian = MedianOf(totals)
            /\ results.spreadMedian = MedianOf(spreads)
            /\ results.totalDist.p50 = KthSmallest(totals, lowerMiddle)
            /\ results.spreadDist.p50 = KthSmallest(spreads, lowerMiddle)
            /\ n % 2 = 1 => /\ results.totalDist.p50 = results.totalMedian
                            /\ results.spreadDist.p50 = results.spreadMedian

\* two trials with totals 3 and 10: the median is 6.5 and the p50 is 3
C8_Witness ==
    /\ pc = "done" /\ engine = "w8" /\ Len(totals) = 2
    /\ totals = <<Num(10), Num(3)>>
    /\ results.totalMedian = Rat(13, 2)
    /\ results.totalDist.p50 = Num(3)

\* the probabilities the summary reports, as fractions
ReportedPOver ==
    IF engine = "v4" THEN FDiv(results.overUnder.overPct, Num(100)) ELSE results.pOver

ReportedPHomeCover ==
    IF engine = "v4" THEN FDiv(results.spread.homeCoverPct, Num(100))
    ELSE results.pHomeCover

\* C9: for every trial sequence of length N and every supplied market line,
\* P(over) is (number of trials with total > market total) / N and P(home
\* covers) is (number of trials with margin > -marketSpread) / N, so a trial
\* exactly on a line counts for neither side.
C9_MarketProbabilitiesAreCounts ==
    (pc = "done" /\ Len(totals) >= 1) =>
        /\ (marketTotal # "" /\ ~isNaN(parseFloat(marketTotal))) =>
               ReportedPOver = FDiv(Num(CountAbove(totals, parseFloat(marketTotal))),
                                    Num(Len(totals)))
        /\ (marketSpread # "" /\ ~isNaN(parseFloat(marketSpread))) =>
               ReportedPHomeCover =
                   FDiv(Num(CountAbove(spreads, FNeg(parseFloat(marketSpread)))),
                        Num(Len(spreads)))

\* the trial count the input state asks for is a count: an integer >= 1
ValidCount(ns) == isFinite(ns) /\ ns[2] = 1 /\ ns[1] >= 1

\* C10: a run whose trial count is zero, negative or non-numeric is rejected
\* before any trial is sampled and stores no result: it never gets to the loop
\* with a default or with 1 in place of the invalid count, and never stores a
\* summary computed over zero trials.
C10_InvalidCountIsRejected ==
    ~ValidCount(numSim) =>
        /\ pc = "idle"
        /\ totals = <<>>
        /\ results = None

\* a market-line text that is neither empty nor a number
NonNumeric(text) == text # "" /\ isNaN(parseFloat(text))

\* C12: a run of the discrete or a Gaussian engine whose market total or
\* market spread is a non-empty text that is not a number is rejected before
\* any trial is sampled and stores no summary.
C12_NonNumericLineIsRejected ==
    (engine # "v4" /\ (NonNumeric(marketTotal) \/ NonNumeric(marketSpread))) =>
        /\ pc = "idle"
        /\ totals = <<>>
        /\ results = None

\* the percentile ladder of the summaries
PercentileLadder ==
    {<<"p10", Rat(10, 100)>>, <<"p25", Rat(25, 100)>>, <<"p50", Rat(50, 100)>>,
     <<"p75", Rat(75, 100)>>, <<"p90", Rat(90, 100)>>}

\* the element at index floor((n - 1) * p) of the ascending-sorted array
AtFloorOfNMinus1(arr, p) ==
    KthSmallest(arr, MathFloor(FMul(Num(Len(arr) - 1), p))[1] + 1)

\* C19: for every non-empty trial sequence of length n and every p of the
\* ladder the percentile in the summary of the discrete and the Gaussian
\* engines is the element at index floor((n - 1) * p) of the sorted sequence.
C19_PercentileAtFloorOfNMinus1 ==
    (pc = "done" /\ engine \in {"w8", "v3", "fixed"} /\ Len(totals) >= 1) =>
        \A q \in PercentileLadder :
            /\ results.totalDist[q[1]] = AtFloorOfNMinus1(totals, q[2])
            /\ results.spreadDist[q[1]] = AtFloorOfNMinus1(spreads, q[2])

(***************************************************************************)
(* The z-score helpers, called on their own                                *)
(***************************************************************************)
\* no matchup is loaded
IdleModel ==
    /\ home = None /\ away = None /\ hfa = Num(0)
    /\ netsHome = None /\ netsAway = None /\ pace = None /\ proj = None

\* the team values, league means and league standard deviations of the calls
ZValues == {Num(0), Num(2), <<-1, 2>>, PosInf, NaN}

ZMeans == {Num(0), <<1, 2>>, PosInf}

ZSds == {Num(0), <<1, 2>>, Num(-2), PosInf, NegInf, NaN}

ZEngines == {"w8", "fixed", "v4"}

InitZ ==
    /\ engine \in ZEngines
    /\ pc = "call"
    /\ call \in [value : ZValues \cup (IF engine = "v4" THEN {} ELSE {Null, Undefined}),
                 mean : ZMeans, sd : ZSds]
    /\ ret = None
    /\ IdleModel /\ IdleTrial /\ IdleRun /\ IdleApp

\* z(v, m, s) of w8 (orig and v3 hold the same text)
CallZ ==
    /\ pc = "call" /\ engine = "w8"
    /\ ret' = z(call.value, call.mean, call.sd)
    /\ pc' = "returned"
    /\ UNCHANGED <<modelVars, trialVars, runVars, appVars, call>>

\* zScore(value, mean, sd) of fixed (v2 holds the same text)
CallZScore ==
    /\ pc = "call" /\ engine = "fixed"
    /\ ret' = zScore(call.value, call.mean, call.sd)
    /\ pc' = "returned"
    /\ UNCHANGED <<modelVars, trialVars, runVars, appVars, call>>

\* zScore(value, mean, sd) of v4
CallZScoreV4 ==
    /\ pc = "call" /\ engine = "v4"
    /\ ret' = zScore_v4(call.value, call.mean, call.sd)
    /\ pc' = "returned"
    /\ UNCHANGED <<modelVars, trialVars, runVars, appVars, call>>

NextZ == CallZ \/ CallZScore \/ CallZScoreV4

SpecZ == InitZ /\ [][NextZ]_vars

\* C13: when the league standard deviation of a metric is zero or not finite
\* (NaN, +Infinity, -Infinity) every z-score helper returns exactly 0,
\* whatever the team value is.
C13_DegenerateSdGivesZero ==
    (pc = "returned" /\ (call.sd = Num(0) \/ ~isFinite(call.sd))) => ret = Num(0)

(***************************************************************************)
(* The league baseline recomputed from an upload (v4)                      *)
(***************************************************************************)
\* Math.sqrt of calcStats: exact when the numerator and the denominator are
\* perfect squares (always so for the variance of at most two values), to two
\* decimals otherwise
MathSqrtExact(x) ==
    LET Root(n, d, rn, rd) ==
            IF rn * rn = n /\ rd * rd = d THEN <<rn, rd>> ELSE MathSqrt(x)
    IN  IF isNaN(x) \/ ~isFinite(x) \/ x[1] < 0 THEN MathSqrt(x)
        ELSE Root(x[1], x[2], ISqrtIn(x[1], 0, 46341), ISqrtIn(x[2], 0, 46341))

\* the valid values of calcStats: not null, not undefined, not NaN
RECURSIVE validValues(_)
validValues(values) ==
    IF values = <<>> THEN <<>>
    ELSE IF Head(values) = Null \/ Head(values) = Undefined \/ isNaN(Head(values))
         THEN validValues(Tail(values))
    ELSE <<Head(values)>> \o validValues(Tail(values))

\* reduce((a, b) => a + Math.pow(b - mean, 2), 0)
RECURSIVE SumSqDev(_, _)
SumSqDev(vals, m) ==
    IF vals = <<>> THEN Num(0)
    ELSE FAdd(FMul(FSub(Head(vals), m), FSub(Head(vals), m)), SumSqDev(Tail(vals), m))

\* (x || def): 0 and NaN are falsy
OrDefault(x, def) == IF isNaN(x) \/ x = Num(0) THEN def ELSE x

\* calcStats of v4
calcStats(values) ==
    LET Stats(m, root) == [mean |-> m, sd |-> OrDefault(root, <<1, 1000>>)]
        Var(vals, m) == Stats(m, MathSqrtExact(FDiv(SumSqDev(vals, m), Num(Len(vals)))))
        Mean(vals) ==
            IF vals = <<>> THEN [mean |-> Num(0), sd |-> Num(1)]
            ELSE Var(vals, FDiv(SumOf(vals), Num(Len(vals))))
    IN  Mean(validValues(values))

\* the PPD entries of the lg record calculateLeagueAverages returns
calculateLeagueAverages(ppdStats) ==
    [PPD |-> OrDefault(ppdStats.mean, <<207, 100>>),
     PPD_sd |-> OrDefault(ppdStats.sd, <<43, 100>>)]

\* what extractValues finds in the PPD column of a team row: a number, or
\* null for an empty cell, or NaN for a cell that is not a number
CellValues == {Num(2), <<2001, 1000>>, Num(3), <<1, 10>>, NaN, Null}

\* the PPD columns of the uploads: no team, one team, two teams, and three
\* teams with the same value
Batches ==
    {<<>>} \cup {<<a>> : a \in CellValues}
           \cup {<<a, b>> : a \in CellValues, b \in CellValues}
           \cup {<<a, a, a>> : a \in CellValues}

InitBaseline ==
    /\ engine = "v4"
    /\ pc = "call"
    /\ call \in [values : Batches]
    /\ ret = None
    /\ IdleModel /\ IdleTrial /\ IdleRun /\ IdleApp

\* const ppdStats = calcStats(ppdVals)
CalcStats ==
    /\ pc = "call"
    /\ ret' = calcStats(call.values)
    /\ pc' = "stats"
    /\ UNCHANGED <<modelVars, trialVars, runVars, appVars, call>>

\* newParams.lg is built from the stats
BuildParams ==
    /\ pc = "stats"
    /\ ret' = calculateLeagueAverages(ret)
    /\ pc' = "built"
    /\ UNCHANGED <<modelVars, trialVars, runVars, appVars, call>>

NextBaseline == CalcStats \/ BuildParams

SpecBaseline == InitBaseline /\ [][NextBaseline]_vars

\* C20: the standard deviation the recomputed baseline stores for a metric is
\* at least 0.001, for every set of values: all equal, nearly equal, a single
\* team, no valid value.
C20_StoredSdAtLeastFloor ==
    pc = "built" => FLe(<<1, 1000>>, ret.PPD_sd)

(***************************************************************************)
(* Uploads, team selection and Run, as the components sequence them        *)
(***************************************************************************)
\* how many team files are uploaded in a behaviour
MaxUploads == 2

\* the team files: two with teams (A and B; C and B, C with defaulted
\* fields), one without a team column, one with a team column and no row
\* that names a team, one that cannot be read
FileAB == [readable |-> TRUE, teamColumn |-> TRUE, names |-> <<"A", "B">>, defaulted |-> {}]

FileCB == [readable |-> TRUE, teamColumn |-> TRUE, names |-> <<"C", "B">>, defaulted |-> {"C"}]

FileNoColumn == [readable |-> TRUE, teamColumn |-> FALSE, names |-> <<>>, defaulted |-> {}]

FileNoNames == [readable |-> TRUE, teamColumn |-> TRUE, names |-> <<>>, defaulted |-> {}]

FileUnreadable == [readable |-> FALSE, teamColumn |-> FALSE, names |-> <<>>, defaulted |-> {}]

TeamFiles == {FileAB, FileCB, FileNoColumn, FileNoNames, FileUnreadable}

\* the games file of the batch mode: A at home against B, B at home against
\* C without a spread, B at home against A
GamesFile ==
    <<[home |-> "A", away |-> "B", spread |-> "-7"],
      [home |-> "B", away |-> "C", spread |-> ""],
      [home |-> "B", away |-> "A", spread |-> "3"]>>

\* parseFloat(row.spread || row.line) || -3 on the spreads of the games file
spreadOf(text) ==
    CASE text = "-7" -> <<-7, 1>>
      [] text = "3"  -> <<3, 1>>
      [] text = ""   -> <<-3, 1>>

AppEngines == {"w8", "v3", "ens", "v4"}

\* names.sort() on the names of the files
NameRank == [A |-> 1, B |-> 2, C |-> 3]

RECURSIVE InsertName(_, _)
InsertName(x, names) ==
    IF names = <<>> THEN <<x>>
    ELSE IF NameRank[x] <= NameRank[Head(names)] THEN <<x>> \o names
    ELSE <<Head(names)>> \o InsertName(x, Tail(names))

RECURSIVE SortNames(_)
SortNames(names) ==
    IF names = <<>> THEN <<>> ELSE InsertName(Head(names), SortNames(Tail(names)))

\* the records an upload builds from the rows that name a team, each tagged
\* with the upload it comes from
recordsOf(file, n) == {[Team |-> file.names[i], upload |-> n] : i \in 1..Len(file.names)}

\* teamDB[name] is not undefined
hasRecord(db, name) == \E r \in db : r.Team = name

\* teamDB[name], where it is defined
lookup(db, name) == CHOOSE r \in db : r.Team = name

\* faulty variant of uploadError_w8: a file without a named team is committed
uploadError_w8_noNamesCheck(file) ==
    IF ~file.readable THEN "Error: cannot read" ELSE ""

\* the message a failing upload leaves in the status line of w8, "" when the
\* upload is committed
uploadError_w8(file) ==
    IF ~file.readable THEN "Error: cannot read"
    ELSE IF file.names = <<>> THEN "Error: No teams found. Ensure a 'Team' column."
    ELSE ""

\* the same for v3, which looks for the team column first
uploadError_v3(file) ==
    IF ~file.readable THEN "Error: cannot read"
    ELSE IF ~file.teamColumn THEN "Error: Could not find a Team column."
    ELSE IF file.names = <<>> THEN "Error: No teams found."
    ELSE ""

\* the same for the ensemble component, which has no check of the names
uploadError_ens(file) ==
    IF ~file.readable THEN "cannot read"
    ELSE IF ~file.teamColumn THEN "No Team column"
    ELSE ""

\* uploadError of v4 after reader.onload or reader.onerror
uploadError_v4(file) ==
    IF ~file.readable THEN "Failed to read file"
    ELSE IF file.names = <<>> THEN "No valid team data found"
    ELSE ""

\* the same for fixed: a file without rows or without a named team
uploadError_fixed(file) ==
    IF ~file.readable THEN "Error: cannot read"
    ELSE IF ~file.teamColumn \/ file.names = <<>> THEN "Error: No teams found."
    ELSE ""

uploadErrorOf(e, file) ==
    CASE e = "w8"  -> uploadError_w8(file)
      [] e = "fixed" -> uploadError_fixed(file)
      [] e = "v3"  -> uploadError_v3(file)
      [] e = "ens" -> uploadError_ens(file)
      [] e = "v4"  -> uploadError_v4(file)

\* what a simulation is computed from: the two team records and the upload
\* the league baseline in use was computed from (0: the built-in baseline)
simulateGame(homeRecord, awayRecord, lgUpload) ==
    [home |-> homeRecord, away |-> awayRecord, params |-> lgUpload]

\* parseGamesCSV: the games whose two names are found in teams
RECURSIVE parseGamesCSV(_, _)
parseGamesCSV(rows, teams) ==
    IF rows = <<>> THEN <<>>
    ELSE IF ~hasRecord(teams, Head(rows).home) \/ ~hasRecord(teams, Head(rows).away)
         THEN parseGamesCSV(Tail(rows), teams)
    ELSE <<[homeTeam |-> lookup(teams, Head(rows).home),
            awayTeam |-> lookup(teams, Head(rows).away),
            settings |-> [spread |-> spreadOf(Head(rows).spread),
                          spreadLine |-> spreadOf(Head(rows).spread)]]>>
         \o parseGamesCSV(Tail(rows), teams)

appFrame == <<pc, modelVars, trialVars, numSim, marketTotal, marketSpread, callVars>>

InitApp ==
    /\ engine \in AppEngines
    /\ pc = "app"
    /\ IdleModel /\ IdleTrial /\ IdleRun /\ IdleCall
    /\ teamDB = {} /\ teamList = <<>> /\ dataHealth = {} /\ leagueParams = 0
    /\ homeTeam = (IF engine = "v4" THEN None ELSE "")
    /\ awayTeam = (IF engine = "v4" THEN None ELSE "")
    /\ uploadStatus = "" /\ uploads = 0
    /\ reader = None /\ timer = None /\ batchReader = None /\ batchGames = <<>>
    /\ batch = None /\ batchResults = <<>> /\ threw = FALSE
    /\ isSim = FALSE /\ isBatchSimulating = FALSE /\ batchProgress = <<0, 1>>

\* a team file is picked: the read begins (v4 clears uploadError first)
StartUpload ==
    /\ reader = None /\ uploads < MaxUploads
    /\ \E file \in TeamFiles : reader' = file
    /\ uploads' = uploads + 1
    /\ uploadStatus' = (IF engine = "v4" THEN ""
                        ELSE IF engine = "fixed" THEN "Reading file" ELSE uploadStatus)
    /\ UNCHANGED <<appFrame, flagVars, results, teamDB, teamList, dataHealth, leagueParams, homeTeam,
                   awayTeam, timer, batchReader, batchGames, batch, batchResults, threw>>

\* handleCSVUpload of w8, v3, fixed and the ensemble component after the
\* text of the file has arrived
handleCSVUpload ==
    /\ engine \in {"w8", "v3", "ens", "fixed"} /\ reader # None
    /\ reader' = None
    /\ IF uploadErrorOf(engine, reader) # ""
       THEN /\ uploadStatus' = uploadErrorOf(engine, reader)
            /\ UNCHANGED <<teamDB, teamList, dataHealth, results>>
       ELSE /\ teamDB' = recordsOf(reader, uploads)
            /\ teamList' = SortNames(reader.names)
            /\ dataHealth' = (IF engine \in {"ens", "fixed"} THEN dataHealth
                               ELSE reader.defaulted)
            /\ uploadStatus' = "Loaded"
            /\ results' = (IF engine = "ens" THEN results ELSE None)
    /\ UNCHANGED <<appFrame, flagVars, leagueParams, homeTeam, awayTeam, uploads, timer, batchReader,
                   batchGames, batch, batchResults, threw>>

\* reader.onload / reader.onerror of handleFileUpload (v4)
handleFileUpload ==
    /\ engine = "v4" /\ reader # None
    /\ reader' = None
    /\ IF uploadError_v4(reader) # ""
       THEN /\ uploadStatus' = uploadError_v4(reader)
            /\ UNCHANGED <<teamDB, leagueParams>>
       ELSE /\ teamDB' = recordsOf(reader, uploads)
            /\ leagueParams' = uploads
            /\ UNCHANGED uploadStatus
    /\ UNCHANGED <<appFrame, flagVars, results, teamList, dataHealth, homeTeam, awayTeam, uploads,
                   timer, batchReader, batchGames, batch, batchResults, threw>>

\* onChange of the two selects: a name of the list or the empty option (v4
\* stores teams.find(...), the record or undefined)
SelectHome ==
    /\ IF engine = "v4"
       THEN \E t \in teamDB \cup {None} : homeTeam' = t
       ELSE \E i \in 0..Len(teamList) : homeTeam' = (IF i = 0 THEN "" ELSE teamList[i])
    /\ UNCHANGED <<appFrame, flagVars, results, teamDB, teamList, dataHealth, leagueParams, awayTeam,
                   uploadStatus, uploads, reader, timer, batchReader, batchGames, batch,
                   batchResults, threw>>

SelectAway ==
    /\ IF engine = "v4"
       THEN \E t \in teamDB \cup {None} : awayTeam' = t
       ELSE \E i \in 0..Len(teamList) : awayTeam' = (IF i = 0 THEN "" ELSE teamList[i])
    /\ UNCHANGED <<appFrame, flagVars, results, teamDB, teamList, dataHealth, leagueParams, homeTeam,
                   uploadStatus, uploads, reader, timer, batchReader, batchGames, batch,
                   batchResults, threw>>

\* run of w8 (runSimulation of v3 begins with the same two checks)
run_w8 ==
    /\ engine \in {"w8", "v3"}
    /\ IF homeTeam = "" \/ awayTeam = ""
       THEN uploadStatus' = "Pick both teams" /\ UNCHANGED results
       ELSE IF ~hasRecord(teamDB, homeTeam) \/ ~hasRecord(teamDB, awayTeam)
       THEN uploadStatus' = "Missing team data" /\ UNCHANGED results
       ELSE /\ results' = simulateGame(lookup(teamDB, homeTeam), lookup(teamDB, awayTeam), 0)
            /\ UNCHANGED uploadStatus
    /\ UNCHANGED <<appFrame, flagVars, teamDB, teamList, dataHealth, leagueParams, homeTeam, awayTeam,
                   uploads, reader, timer, batchReader, batchGames, batch, batchResults,
                   threw>>

\* run of the ensemble component: computeNets reads a field of teamDB[name],
\* a TypeError when the record is undefined
run_ens ==
    /\ engine = "ens"
    /\ IF homeTeam = "" \/ awayTeam = ""
       THEN uploadStatus' = "Pick both teams" /\ UNCHANGED <<results, threw>>
       ELSE IF ~hasRecord(teamDB, homeTeam) \/ ~hasRecord(teamDB, awayTeam)
       THEN threw' = TRUE /\ UNCHANGED <<results, uploadStatus>>
       ELSE /\ results' = simulateGame(lookup(teamDB, homeTeam), lookup(teamDB, awayTeam), 0)
            /\ UNCHANGED <<uploadStatus, threw>>
    /\ UNCHANGED <<appFrame, flagVars, teamDB, teamList, dataHealth, leagueParams, homeTeam, awayTeam,
                   uploads, reader, timer, batchReader, batchGames, batch, batchResults>>

\* runSimulation of v4 (the button is disabled without a selection and while
\* isSimulating): the callback is deferred with the selection and the
\* baseline of this render
runSimulation_v4 ==
    /\ engine = "v4" /\ homeTeam # None /\ awayTeam # None /\ ~isSim
    /\ isSim' = TRUE
    /\ timer' = [home |-> homeTeam, away |-> awayTeam, params |-> leagueParams]
    /\ UNCHANGED <<appFrame, results, teamDB, teamList, dataHealth, leagueParams, homeTeam,
                   awayTeam, uploadStatus, uploads, reader, batchReader, batchGames, batch,
                   batchResults, threw, isBatchSimulating, batchProgress>>

\* the deferred callback of runSimulation: simulateGame returns or throws
\* into the catch, and the finally clause clears the flag
TimerFires ==
    /\ engine = "v4" /\ timer # None
    /\ \E returns \in BOOLEAN :
           results' = (IF returns THEN simulateGame(timer.home, timer.away, timer.params)
                       ELSE results)
    /\ isSim' = FALSE
    /\ timer' = None
    /\ UNCHANGED <<appFrame, teamDB, teamList, dataHealth, leagueParams, homeTeam, awayTeam,
                   uploadStatus, uploads, reader, batchReader, batchGames, batch,
                   batchResults, threw, isBatchSimulating, batchProgress>>

\* handleBatchUpload: the games file is picked; its callback will resolve
\* the names against the teams of this render
handleBatchUpload ==
    /\ engine = "v4" /\ batchReader = None
    /\ batchReader' = [teams |-> teamDB]
    /\ UNCHANGED <<appFrame, flagVars, results, teamDB, teamList, dataHealth, leagueParams, homeTeam,
                   awayTeam, uploadStatus, uploads, reader, timer, batchGames, batch,
                   batchResults, threw>>

\* reader.onload of handleBatchUpload
BatchLoaded ==
    /\ batchReader # None
    /\ batchGames' = parseGamesCSV(GamesFile, batchReader.teams)
    /\ batchReader' = None
    /\ UNCHANGED <<appFrame, flagVars, results, teamDB, teamList, dataHealth, leagueParams, homeTeam,
                   awayTeam, uploadStatus, uploads, reader, timer, batch, batchResults,
                   threw>>

\* faulty variant of batchEntry: every result is paired with the default spread
batchEntry_defaultSettings(result, settings) ==
    [home |-> result.home, away |-> result.away, params |-> result.params,
     settings |-> [spread |-> <<-3, 1>>, spreadLine |-> <<-3, 1>>]]

\* { ...result, settings: game.settings }
batchEntry(result, settings) ==
    [home |-> result.home, away |-> result.away, params |-> result.params,
     settings |-> settings]

\* faulty variant of progressAfter: the games before this one are counted
progressAfter_before(i, n) == FMul(FDiv(Num(i), Num(n)), Num(100))

\* ((i + 1) / batchGames.length) * 100 for the 0-based i
progressAfter(i, n) == FMul(FDiv(Num(i + 1), Num(n)), Num(100))

\* runBatchSimulation up to its loop (the button is disabled without games
\* and while isBatchSimulating): the loop keeps the games and the baseline
\* of this render
runBatchSimulation ==
    /\ engine = "v4" /\ batchGames # <<>> /\ ~isBatchSimulating
    /\ isBatchSimulating' = TRUE
    /\ batchProgress' = Num(0)
    /\ batchResults' = <<>>
    /\ batch' = [games |-> batchGames, params |-> leagueParams, i |-> 0, results |-> <<>>,
                 errors |-> <<>>]
    /\ UNCHANGED <<appFrame, results, teamDB, teamList, dataHealth, leagueParams, homeTeam,
                   awayTeam, uploadStatus, uploads, reader, timer, batchReader, batchGames,
                   threw, isSim>>

\* one game of the batch loop, up to its await: simulateGame returns or
\* throws into the catch of the loop body, which logs the game (errors)
BatchGame ==
    /\ batch # None /\ batch.i < Len(batch.games)
    /\ \E returns \in BOOLEAN :
           batch' = [batch EXCEPT
                        !.results =
                            IF returns
                            THEN Append(@, batchEntry(
                                     simulateGame(batch.games[batch.i + 1].homeTeam,
                                                  batch.games[batch.i + 1].awayTeam,
                                                  batch.params),
                                     batch.games[batch.i + 1].settings))
                            ELSE @,
                        !.errors = IF returns THEN @ ELSE Append(@, batch.i),
                        !.i = @ + 1]
    /\ batchProgress' = progressAfter(batch.i, Len(batch.games))
    /\ UNCHANGED <<appFrame, results, teamDB, teamList, dataHealth, leagueParams, homeTeam,
                   awayTeam, uploadStatus, uploads, reader, timer, batchReader, batchGames,
                   batchResults, threw, isSim, isBatchSimulating>>

\* the loop is over: setBatchResults, setIsBatchSimulating(false)
BatchDone ==
    /\ batch # None /\ batch.i >= Len(batch.games)
    /\ batchResults' = batch.results
    /\ isBatchSimulating' = FALSE
    /\ batch' = None
    /\ UNCHANGED <<appFrame, results, teamDB, teamList, dataHealth, leagueParams, homeTeam,
                   awayTeam, uploadStatus, uploads, reader, timer, batchReader, batchGames,
                   threw, isSim, batchProgress>>

\* onChange of the trial-count input of w8 (the Gaussian engines fill their
\* arrays with push and keep the default count here)
AppNumSimTexts == {"2", "99999999999"}

SetNumSimApp ==
    /\ engine = "w8"
    /\ \E text \in AppNumSimTexts : numSim' = numSimOf(text)
    /\ UNCHANGED <<pc, modelVars, trialVars, marketTotal, marketSpread, callVars, results,
                   appVars>>

\* new Array(N) throws a RangeError for N above 2^32 - 1; Math.max(1, N) of
\* such a count is the count
newArrayThrows(ns) == ns = HugeCount

\* onClick of the Run button of w8 and v3 (disabled without a selection and
\* while the flag is set): setIsSim(true) and setTimeout of a callback that
\* closes over run, hence over the state of this render
ClickRun ==
    /\ engine \in {"w8", "v3"} /\ homeTeam # "" /\ awayTeam # "" /\ ~isSim
    /\ isSim' = TRUE
    /\ timer' = [db |-> teamDB, home |-> homeTeam, away |-> awayTeam, numSim |-> numSim]
    /\ UNCHANGED <<appFrame, results, teamDB, teamList, dataHealth, leagueParams, homeTeam,
                   awayTeam, uploadStatus, uploads, reader, batchReader, batchGames, batch,
                   batchResults, threw, isBatchSimulating, batchProgress>>

\* the deferred callback () => { run(); setIsSim(false); }: when run throws,
\* setIsSim(false) is not reached
RunCallback ==
    /\ engine \in {"w8", "v3"} /\ timer # None
    /\ timer' = None
    /\ IF ~hasRecord(timer.db, timer.home) \/ ~hasRecord(timer.db, timer.away)
       THEN /\ uploadStatus' = "Missing team data"
            /\ isSim' = FALSE
            /\ UNCHANGED <<results, threw>>
       ELSE IF engine = "w8" /\ newArrayThrows(timer.numSim)
       THEN /\ threw' = TRUE
            /\ UNCHANGED <<results, uploadStatus, isSim>>
       ELSE /\ results' = simulateGame(lookup(timer.db, timer.home),
                                       lookup(timer.db, timer.away), 0)
            /\ isSim' = FALSE
            /\ UNCHANGED <<uploadStatus, threw>>
    /\ UNCHANGED <<appFrame, teamDB, teamList, dataHealth, leagueParams, homeTeam, awayTeam,
                   uploads, reader, batchReader, batchGames, batch, batchResults,
                   isBatchSimulating, batchProgress>>

\* handleSimulateClick of fixed: runSimulation runs inside the handler,
\* between setIsSimulating(true) and the setIsSimulating(false) of finally
handleSimulateClick ==
    /\ engine = "fixed" /\ homeTeam # "" /\ awayTeam # "" /\ ~isSim
    /\ IF ~hasRecord(teamDB, homeTeam) \/ ~hasRecord(teamDB, awayTeam)
       THEN uploadStatus' = "Missing team data" /\ UNCHANGED results
       ELSE /\ results' = simulateGame(lookup(teamDB, homeTeam), lookup(teamDB, awayTeam), 0)
            /\ UNCHANGED uploadStatus
    /\ isSim' = FALSE
    /\ UNCHANGED <<appFrame, teamDB, teamList, dataHealth, leagueParams, homeTeam, awayTeam,
                   uploads, reader, timer, batchReader, batchGames, batch, batchResults,
                   threw, isBatchSimulating, batchProgress>>

\* uploads, selection and single runs of the four components
NextApp ==
    \/ StartUpload \/ handleCSVUpload \/ handleFileUpload \/ SelectHome \/ SelectAway
    \/ run_w8 \/ run_ens \/ runSimulation_v4 \/ TimerFires

SpecApp == InitApp /\ [][NextApp]_vars

\* v4 with its batch mode: every callback of the component interleaved
InitV4 == InitApp /\ engine = "v4"

NextV4 ==
    \/ StartUpload \/ handleFileUpload \/ SelectHome \/ SelectAway
    \/ runSimulation_v4 \/ TimerFires
    \/ handleBatchUpload \/ BatchLoaded \/ runBatchSimulation \/ BatchGame \/ BatchDone

SpecV4 == InitV4 /\ [][NextV4]_vars

\* the Run button of w8, v3, fixed and v4 with its deferred callbacks,
\* interleaved with uploads and selections
ClickEngines == {"w8", "v3", "fixed", "v4"}

InitClick ==
    /\ engine \in ClickEngines
    /\ pc = "app"
    /\ IdleModel /\ IdleTrial /\ IdleCall
    /\ numSim = Num(DefaultNumSim) /\ marketTotal = "" /\ marketSpread = ""
    /\ results = None
    /\ teamDB = {} /\ teamList = <<>> /\ dataHealth = {} /\ leagueParams = 0
    /\ homeTeam = (IF engine = "v4" THEN None ELSE "")
    /\ awayTeam = (IF engine = "v4" THEN None ELSE "")
    /\ uploadStatus = "" /\ uploads = 0
    /\ reader = None /\ timer = None /\ batchReader = None /\ batchGames = <<>>
    /\ batch = None /\ batchResults = <<>> /\ threw = FALSE
    /\ isSim = FALSE /\ isBatchSimulating = FALSE /\ batchProgress = <<0, 1>>

NextClick ==
    \/ StartUpload \/ handleCSVUpload \/ handleFileUpload \/ SelectHome \/ SelectAway
    \/ SetNumSimApp \/ ClickRun \/ RunCallback \/ handleSimulateClick
    \/ runSimulation_v4 \/ TimerFires

SpecClick == InitClick /\ [][NextClick]_vars

\* a timer of delay 0 fires: a pending callback is run
SpecClickLive == SpecClick /\ WF_vars(RunCallback) /\ WF_vars(TimerFires)

\* the batch mode of v4 on its own: team uploads, games uploads and the
\* batch loop
NextBatch ==
    \/ StartUpload \/ handleFileUpload
    \/ handleBatchUpload \/ BatchLoaded \/ runBatchSimulation \/ BatchGame \/ BatchDone

SpecBatch == InitV4 /\ [][NextBatch]_vars

\* the timer of each await of the loop fires, so a step of the loop that is
\* due is taken
SpecBatchLive == SpecBatch /\ WF_vars(BatchGame) /\ WF_vars(BatchDone)

(***************************************************************************)
(* Properties of uploads, selection and Run                                *)
(***************************************************************************)
\* the selection a Run must reject: a side is unselected, or a selected name
\* has no record in the team database as loaded now
InvalidSelection ==
    IF engine = "v4"
    THEN \/ homeTeam = None \/ awayTeam = None
         \/ ~hasRecord(teamDB, homeTeam.Team) \/ ~hasRecord(teamDB, awayTeam.Team)
    ELSE \/ homeTeam = "" \/ awayTeam = ""
         \/ ~hasRecord(teamDB, homeTeam) \/ ~hasRecord(teamDB, awayTeam)

\* C11: after any sequence of uploads and selections, a Run with a side
\* unselected or with a selected name that has no record in the loaded team
\* database is rejected with a status message before anything is computed:
\* nothing is thrown, no simulation is scheduled and the stored results stay.
C11_InvalidRunIsRejected ==
    [][((run_w8 \/ run_ens \/ runSimulation_v4) /\ InvalidSelection) =>
           /\ uploadStatus' \in {"Pick both teams", "Missing team data"}
           /\ threw' = FALSE
           /\ timer' = None
           /\ results' = results]_vars

\* a simulation result built from the records and the baseline of one upload
FromOneUpload(r) == r.home.upload = r.params /\ r.away.upload = r.params

\* C14: in v4 every simulation, of a single run or of a batch, uses team
\* records and a league baseline that come from the same completed upload,
\* under every interleaving of the file-reader callbacks, the deferred run
\* callback and the batch loop.
C14_SimulationUsesOneUpload ==
    engine = "v4" =>
        /\ results # None => FromOneUpload(results)
        /\ \A j \in 1..Len(batchResults) : FromOneUpload(batchResults[j])
        /\ batch # None => \A j \in 1..Len(batch.results) : FromOneUpload(batch.results[j])

\* an upload the claim calls failed: the file cannot be read, has no team
\* column, or has no row with a team name
UploadFails(file) == ~file.readable \/ ~file.teamColumn \/ file.names = <<>>

\* C15: in w8, v3 and v4 the completion of a failed upload changes the
\* status / error message only: the team database, the team list, the data
\* health report, the league baseline, the selection and the stored results
\* are unchanged.
C15_FailedUploadCommitsNothing ==
    [][(/\ engine \in {"w8", "v3", "v4"}
        /\ reader # None /\ reader' = None
        /\ UploadFails(reader)) =>
           /\ UNCHANGED <<teamDB, teamList, dataHealth, leagueParams, homeTeam, awayTeam,
                          results>>
           /\ uploadStatus' = uploadErrorOf(engine, reader)
           /\ uploadStatus' \notin {"", "Loaded"}]_vars

\* w8 after a good upload, a selection and a run: a second file without a
\* named team fails, and teams, selection and results are still there
C15_Witness ==
    /\ engine = "w8" /\ uploads = 2 /\ reader = None
    /\ uploadStatus = "Error: No teams found. Ensure a 'Team' column."
    /\ teamDB = recordsOf(FileCB, 1) /\ teamList = <<"B", "C">> /\ dataHealth = {"C"}
    /\ homeTeam = "C" /\ awayTeam = "B"
    /\ results = simulateGame([Team |-> "C", upload |-> 1], [Team |-> "B", upload |-> 1], 0)

(***************************************************************************)
(* Properties of the batch mode                                            *)
(***************************************************************************)
\* C21: runBatchSimulation simulates the games one at a time in input
\* order; batchProgress is 0 when the batch starts, never decreases during
\* the batch, is (i+1)/n*100 after the i-th game (0-based) of n and 100 when
\* the last game is done, after which isBatchSimulating becomes false; every
\* started batch eventually finishes.
C21_BatchProgressAndCompletion ==
    /\ [][(~isBatchSimulating /\ isBatchSimulating') =>
              batchProgress' = Num(0) /\ batch'.i = 0]_vars
    /\ [][(isBatchSimulating /\ isBatchSimulating') =>
              /\ FLe(batchProgress, batchProgress')
              /\ batch'.games = batch.games
              /\ batch'.i \in {batch.i, batch.i + 1}]_vars
    /\ [](isBatchSimulating /\ batch.i > 0 =>
              batchProgress = FDiv(Num(100 * batch.i), Num(Len(batch.games))))
    /\ [][(isBatchSimulating /\ ~isBatchSimulating') =>
              batch.i = Len(batch.games) /\ batchProgress = Num(100)]_vars
    /\ (isBatchSimulating ~> ~isBatchSimulating)

\* the first of two games is done: the progress is 50
C21_Witness ==
    /\ isBatchSimulating /\ Len(batch.games) = 2 /\ batch.i = 1
    /\ batchProgress = Num(50)

\* the entries the batch owes: one for each game whose simulation did not
\* throw, in input order, with the settings of that game
RECURSIVE OwedFrom(_, _, _, _)
OwedFrom(j, games, errors, params) ==
    IF j > Len(games) THEN <<>>
    ELSE (IF \E e \in 1..Len(errors) : errors[e] = j - 1
          THEN <<>>
          ELSE <<[home |-> games[j].homeTeam, away |-> games[j].awayTeam,
                  params |-> params, settings |-> games[j].settings]>>)
         \o OwedFrom(j + 1, games, errors, params)

\* C28: a game whose simulation throws is skipped without aborting the
\* batch: the batchResults committed at the end hold exactly one entry for
\* each game that did not throw, in input order, each with that game's own
\* settings; and batchResults is empty from the start of the batch until the
\* whole batch has finished.
C28_ThrowingGameIsSkipped ==
    /\ [](isBatchSimulating => batchResults = <<>>)
    /\ [][(isBatchSimulating /\ ~isBatchSimulating') =>
              /\ batch.i = Len(batch.games)
              /\ batchResults' = OwedFrom(1, batch.games, batch.errors, batch.params)]_vars

\* a batch of two games is over; the first game threw, and the one entry
\* committed is the second game (B at home against A, spread 3)
C28_Witness ==
    /\ ~isBatchSimulating /\ Len(batchGames) = 2 /\ batchProgress = Num(100)
    /\ Len(batchResults) = 1
    /\ batchResults[1].home.Team = "B" /\ batchResults[1].away.Team = "A"
    /\ batchResults[1].settings.spread = Num(3)

(***************************************************************************)
(* Properties of the Gaussian scoring model                                *)
(***************************************************************************)
\* the rows of the Gaussian runs
GaussRows == {TeamAvg, TeamFast, TeamElite, TeamStingy, TeamPct}

\* the Gaussian engines, the ensemble component and the discrete engine w8
\* on every pair of those rows
InitGauss ==
    /\ engine \in GaussEngines \cup {"ens", "w8"}
    /\ home \in GaussRows
    /\ away \in GaussRows
    /\ hfa \in HfaValues
    /\ pc = "start"
    /\ netsHome = None /\ netsAway = None /\ pace = None /\ proj = None
    /\ IdleTrial /\ IdleRun /\ IdleApp /\ IdleCall

SpecGauss == InitGauss /\ [][NextModel]_vars

\* C22: for all inputs, the per-team standard deviation returned by
\* estimateScore of the Gaussian engines lies within [6, 14] points.
C22_SdWithinBand ==
    (pc = "projected" /\ engine \in GaussEngines) =>
        /\ FLe(Num(6), proj.home.std_dev) /\ FLe(proj.home.std_dev, Num(14))
        /\ FLe(Num(6), proj.away.std_dev) /\ FLe(proj.away.std_dev, Num(14))

\* points per drive within [0.4, 4.0]
PpdInBand(x) == FLe(<<2, 5>>, x) /\ FLe(x, Num(4))

\* C23: the points-per-drive value that is multiplied by a team's allocated
\* drives to give its expected points lies in [0.4, 4.0], for both sides and
\* for every net advantage and HFA value, the home side after the home-field
\* advantage has been added included.
C23_PpdWithinBand ==
    (pc = "projected" /\ engine \in {"fixed", "ens"}) =>
        PpdInBand(proj.home.ppd) /\ PpdInBand(proj.away.ppd)

\* the net signals of one side as the engine stores them: the points per
\* drive net is stored residualized, ppd_net - (c1 * epa_net + c2 * sr_net)
NetSignals(e, n) ==
    IF e \in DiscreteEngines
    THEN [epa |-> n.EPA_net, sr |-> n.SR_net, rz |-> n.RZ_net, xpl |-> None,
          ppd |-> FAdd(n.PPD_resid, FAdd(FMul(PPD_RESID_C1, n.EPA_net),
                                         FMul(PPD_RESID_C2, n.SR_net)))]
    ELSE [epa |-> n.epa_net, sr |-> n.sr_net, rz |-> n.rz_net, xpl |-> n.xpl_net,
          ppd |-> FAdd(n.ppd_resid, FAdd(FMul(PPD_RESID_C1, n.epa_net),
                                         FMul(PPD_RESID_C2, n.sr_net)))]

\* the standardizer and the league table of the engine
zOf(e, v, m, s) == IF e = "ens" THEN z_ens(v, m, s) ELSE z(v, m, s)

lgOf(e) == IF e \in DiscreteEngines THEN lg_dds ELSE IF e = "ens" THEN lg_ens ELSE lg_gauss

\* z(offense value) - z(opponent's allowed value) of one metric
zDifference(e, o, d, m, s) == FSub(zOf(e, o, m, s), zOf(e, d, m, s))

NetsAreDifferences(e, n, off, def) ==
    LET L == lgOf(e)
        S == NetSignals(e, n)
    IN  /\ S.epa = zDifference(e, off.off_epa, def.def_epa_allowed, L.EPA, L.EPA_sd)
        /\ S.sr = zDifference(e, off.off_sr, def.def_sr, L.SR, L.SR_sd)
        /\ S.ppd = zDifference(e, off.off_ppd, def.def_ppd_allowed, L.PPD, L.PPD_sd)
        /\ S.rz = zDifference(e, off.off_rz, def.def_rz, L.RZ, L.RZ_sd)
        /\ e \notin DiscreteEngines =>
               S.xpl = zDifference(e, off.off_xpl, def.def_xpl, L.Xpl, L.Xpl_sd)
        /\ off.off_epa = def.def_epa_allowed => S.epa = Num(0)
        /\ off.off_sr = def.def_sr => S.sr = Num(0)
        /\ off.off_ppd = def.def_ppd_allowed => S.ppd = Num(0)
        /\ off.off_rz = def.def_rz => S.rz = Num(0)

\* C24: for EPA/play, success rate, points per drive, explosive rate and
\* red-zone TD rate the net signal of a matchup is z(offense value) minus
\* z(opponent's allowed value), both standardized with the same league mean
\* and SD; an offense value equal to the opponent's allowed value gives 0.
C24_NetIsDifferenceOfZ ==
    (pc = "nets" /\ engine \in {"w8", "fixed", "ens"}) =>
        /\ NetsAreDifferences(engine, netsHome, home, away)
        /\ NetsAreDifferences(engine, netsAway, away, home)

(***************************************************************************)
(* Properties of the discrete drive loop                                   *)
(***************************************************************************)
\* x = 7 t + 3 f for non-negative integers t and f with t + f <= d
IsDriveScore(x, d) ==
    /\ x[2] = 1
    /\ d[2] = 1
    /\ \E t \in 0..d[1] : \E f \in 0..(d[1] - t) : x[1] = 7 * t + 3 * f
    /\ FLe(Num(0), x) /\ FLe(x, FMul(Num(7), d))

\* C25: in the discrete engine every drive is worth 0, 3 or 7 points, so
\* after any number of sampled drives a team's score is 7 t + 3 f with
\* t + f at most the drives sampled, and every recorded score is such a
\* sum over the team's allocated drives, between 0 and 7 times the drives.
C25_DriveScores ==
    engine \in DiscreteEngines =>
        /\ pc = "homeDrives" =>
               FLe(Num(k), proj.home.drives) /\ IsDriveScore(hs, Num(k))
        /\ pc = "awayDrives" =>
               /\ IsDriveScore(hs, proj.home.drives)
               /\ FLe(Num(k), proj.away.drives) /\ IsDriveScore(as, Num(k))
        /\ \A i \in Trials :
               /\ IsDriveScore(homeScores[i], proj.home.drives)
               /\ IsDriveScore(awayScores[i], proj.away.drives)

\* a recorded trial with two touchdowns of the home side and two field goals
\* of the away side
C25_Witness ==
    /\ engine \in DiscreteEngines
    /\ Len(homeScores) = 1
    /\ homeScores[1] = Num(14)
    /\ awayScores[1] = Num(6)

(***************************************************************************)
(* Properties of the Run button                                            *)
(***************************************************************************)
\* C26: in w8 and v3, under every interleaving of the asynchronous upload
\* and the deferred run callback, stored results that are not null were
\* computed from the team database that is loaded now: an upload that
\* succeeds clears them and they stay null until a run that started after
\* it has finished.
C26_ResultsFromLoadedDatabase ==
    (engine \in {"w8", "v3"} /\ results # None) =>
        results.home \in teamDB /\ results.away \in teamDB

\* C27: after every click on Run the simulating flag returns to false,
\* whether the run completes, is rejected or throws, and while the flag is
\* set no second run is started: at most one callback is pending.
C27_FlagReturnsToFalse ==
    /\ isSim ~> ~isSim
    /\ [][isSim => (timer' = timer \/ timer' = None)]_vars

(***************************************************************************)
(* Properties of the percentile ladder                                     *)
(***************************************************************************)
\* the trial of the Gaussian engines fixed and v3 in which Math.random()
\* returns 0 four times: z1 = z2 = Infinity, both scores and the total are
\* Infinity and the spread is Infinity - Infinity.  It is taken in a run of
\* one trial, where the order the sort leaves is not in question.
ZeroDrawTrial ==
    /\ pc = "loop" /\ LoopGoesOn
    /\ engine \in {"fixed", "v3"} /\ N = Num(1)
    /\ PushTrial([homeScore |-> PosInf, awayScore |-> PosInf,
                  total |-> FAdd(PosInf, PosInf), spread |-> FSub(PosInf, PosInf)])
    /\ UNCHANGED <<pc, modelVars, N, k, hs, as, runVars, appVars, callVars>>

NextLadder == NextRun \/ ZeroDrawTrial

SpecLadder == InitRun /\ [][NextLadder]_vars

\* v lies between the minimum and the maximum of arr
WithinRange(v, arr) ==
    /\ \E i \in 1..Len(arr) : FLe(arr[i], v)
    /\ \E i \in 1..Len(arr) : FLe(v, arr[i])

NonDecreasing(vals) == \A i \in 1..(Len(vals) - 1) : FLe(vals[i], vals[i + 1])

LadderOk(vals, arr) ==
    NonDecreasing(vals) /\ \A i \in 1..Len(vals) : WithinRange(vals[i], arr)

\* the ladder a summary reports: p10, p25, p50, p75, p90 in w8, v3 and fixed;
\* p10, median, p90 in v4
LadderOf(d) ==
    IF engine = "v4" THEN <<d.p10, d.median, d.p90>>
    ELSE <<d.p10, d.p25, d.p50, d.p75, d.p90>>

\* C29: for every non-empty trial sequence the percentile ladder of the
\* summary is non-decreasing and each of its values lies between the
\* minimum and the maximum of the sequence.
C29_LadderIsMonotoneAndInRange ==
    (pc = "done" /\ Len(totals) >= 1) =>
        IF engine = "v4"
        THEN /\ LadderOk(LadderOf(results.totalProjection), totals)
             /\ LadderOk(LadderOf(results.marginProjection), spreads)
        ELSE /\ LadderOk(LadderOf(results.totalDist), totals)
             /\ LadderOk(LadderOf(results.spreadDist), spreads)

(***************************************************************************)
(* The drives model of v4                                                  *)
(***************************************************************************)
\* clamp of v4: Math.max(a, Math.min(b, x))
clamp(x, a, b) == MathMax(a, MathMin(b, x))

\* params.lg.Drives and params.lg.TO_pct of the baseline in use
LgDrives == <<11, 1>>

LgToPct == <<11, 100>>

\* parsePercent(findValue(team, ['Offensive TO%', 'TO%'])) || params.lg.TO_pct
toRateOrDefault(v) == IF v = Null THEN LgToPct ELSE OrDefault(v, LgToPct)

\* the end of calculateExpectedDrives: the two clamps and the record returned
drivesReturned(homeDrives, awayDrives, totalGameDrives, turnoverSwing, gamePaceAdj) ==
    [homeDrives |-> clamp(homeDrives, Num(9), Num(13)),
     awayDrives |-> clamp(awayDrives, Num(9), Num(13)),
     totalGameDrives |-> totalGameDrives,
     differential |-> FSub(clamp(homeDrives, Num(9), Num(13)),
                           clamp(awayDrives, Num(9), Num(13))),
     turnoverSwing |-> turnoverSwing,
     gamePaceAdj |-> gamePaceAdj]

\* the cap of the differential at one drive
drivesCapped(homeDrives, awayDrives, differential, total, swing, gpa) ==
    IF FGt(MathAbs(differential), Num(1))
    THEN IF FGt(differential, Num(0))
         THEN drivesReturned(
                  FSub(homeDrives, FDiv(FSub(MathAbs(differential), Num(1)), Num(2))),
                  FAdd(awayDrives, FDiv(FSub(MathAbs(differential), Num(1)), Num(2))),
                  total, swing, gpa)
         ELSE drivesReturned(
                  FAdd(homeDrives, FDiv(FSub(MathAbs(differential), Num(1)), Num(2))),
                  FSub(awayDrives, FDiv(FSub(MathAbs(differential), Num(1)), Num(2))),
                  total, swing, gpa)
    ELSE drivesReturned(homeDrives, awayDrives, total, swing, gpa)

\* the split of the drives by turnover swing and capped pace edge
drivesSplit(baseDrivesEach, turnoverSwing, cappedPaceEdge, gpa) ==
    drivesCapped(
        FAdd(FAdd(baseDrivesEach, FDiv(turnoverSwing, Num(2))), cappedPaceEdge),
        FSub(FSub(baseDrivesEach, FDiv(turnoverSwing, Num(2))), cappedPaceEdge),
        FSub(FAdd(FAdd(baseDrivesEach, FDiv(turnoverSwing, Num(2))), cappedPaceEdge),
             FSub(FSub(baseDrivesEach, FDiv(turnoverSwing, Num(2))), cappedPaceEdge)),
        FMul(baseDrivesEach, Num(2)), turnoverSwing, gpa)

drivesFromBase(baseDrivesEach, homeTO, awayTO, paceEdge, gpa) ==
    drivesSplit(baseDrivesEach,
                FMul(FSub(FMul(baseDrivesEach, awayTO), FMul(baseDrivesEach, homeTO)),
                     <<4, 5>>),
                clamp(paceEdge, <<-3, 10>>, <<3, 10>>), gpa)

\* calculateExpectedDrives of v4 from the four pace adjustments of
\* calculatePaceAdjustment and the two parsed turnover cells
calculateExpectedDrives(homePace, awayPace, homeDefPace, awayDefPace, homeTOCell, awayTOCell) ==
    drivesFromBase(
        FDiv(FMul(FMul(LgDrives, Num(2)),
                  FAdd(Num(1), FDiv(FAdd(FAdd(FAdd(homePace, awayPace), homeDefPace),
                                         awayDefPace), Num(4)))), Num(2)),
        toRateOrDefault(homeTOCell), toRateOrDefault(awayTOCell),
        FMul(FSub(homePace, awayPace), <<3, 10>>),
        FDiv(FAdd(FAdd(FAdd(homePace, awayPace), homeDefPace), awayDefPace), Num(4)))

\* the pace adjustments calculatePaceAdjustment returns: none, small, large,
\* and NaN (a z-score of v4 with a non-finite league sd)
PaceAdjs == {<<0, 1>>, <<1, 10>>, <<-1, 5>>, <<2, 1>>, NaN}

DefPaceAdjs == {<<0, 1>>, <<1, 10>>}

\* what parsePercent returns for the turnover cell: null for a missing
\* cell, a rate, or Infinity for the cell "Infinity"
ToCells == {Null, <<1, 10>>, <<1, 5>>, <<3, 1>>, PosInf}

InitDrives ==
    /\ engine = "v4"
    /\ pc = "call"
    /\ call \in [homePace : PaceAdjs, awayPace : PaceAdjs, homeDefPace : DefPaceAdjs,
                  awayDefPace : DefPaceAdjs, homeTO : ToCells, awayTO : ToCells]
    /\ ret = None
    /\ IdleModel /\ IdleTrial /\ IdleRun /\ IdleApp

CallExpectedDrives ==
    /\ pc = "call"
    /\ ret' = calculateExpectedDrives(call.homePace, call.awayPace, call.homeDefPace,
                                      call.awayDefPace, call.homeTO, call.awayTO)
    /\ pc' = "returned"
    /\ UNCHANGED <<modelVars, trialVars, runVars, appVars, call>>

NextDrives == CallExpectedDrives

SpecDrives == InitDrives /\ [][NextDrives]_vars

\* C30: for all pace adjustments and turnover rates calculateExpectedDrives
\* returns homeDrives and awayDrives within [9, 13] that differ by at most
\* 1.0, and the differential it reports is homeDrives - awayDrives of the
\* returned values.
C30_DrivesBoundedAndBalanced ==
    pc = "returned" =>
        /\ InRange(ret.homeDrives, Num(9), Num(13))
        /\ InRange(ret.awayDrives, Num(9), Num(13))
        /\ FLe(MathAbs(FSub(ret.homeDrives, ret.awayDrives)), Num(1))
        /\ ret.differential = FSub(ret.homeDrives, ret.awayDrives)

====
